---- MODULE Spec2Model ----
(***************************************************************************)
(* Class-scoped role and permission resolution of InformaticsClassroom:    *)
(* the role catalogs and resolvers (auth/permissions.py,                   *)
(* auth/class_auth.py), the membership normalizer and consistency checker  *)
(* (auth/class_membership_utils.py), the decision functions, and the       *)
(* member-management and answer-submission routes over the principal      *)
(* store (classroom/api_routes.py), and the backfill scripts               *)
(* (scripts/migrate_student_enrollments.py,                                *)
(* scripts/migrate_user_permissions_v2.py,                                 *)
(* migrations/sync_class_memberships.py).                                  *)
(*                                                                         *)
(* Python values are encoded as follows.                                   *)
(*   - a missing dict key is Absent, the value None is None, both strings; *)
(*   - a membership entry {class_id, role, assigned_at, assigned_by} is a  *)
(*     record of four strings, each possibly Absent or None;               *)
(*   - a dict is the sequence of its [key, value] pairs in insertion      *)
(*     order, keys unique; two dicts are equal when they hold the same     *)
(*     pairs (DictEq);                                                     *)
(*   - a value of a class-role mapping is [nested, role]: the bare string  *)
(*     role when nested is FALSE, the object {role: role} when TRUE;       *)
(*   - a field of a principal record is [kind, items], kind "absent" for a *)
(*     missing key, "list" or "dict" for the container found.              *)
(***************************************************************************)
EXTENDS Integers, Sequences, FiniteSets, TLC

VARIABLES
    user,        \* the principal record a pure function is invoked on
    prevUser,    \* the value of user before the last rewriting call
    calls,       \* number of normalize passes applied to user
    lastOp,      \* the last operation that rewrote user
    checkResult, \* result of the last check_format_consistency on user
    decision,    \* result of the last decision-engine call
    roleTable,   \* the role catalog the resolver expands (ROLE_PERMISSIONS)
    resolved,    \* the resolver calls made: [resolver, role, permissions]
    db,          \* the principal store: user_id -> stored record
    tokens,      \* user_id -> the claims of the access token issued to it
    response,    \* the response of the last route request or batch run
    log          \* the activity log: answers submitted, content modifications

vars == <<user, prevUser, calls, lastOp, checkResult, decision, roleTable,
          resolved, db, tokens, response, log>>

----------------------------------------------------------------------------
(* Bounds of the model *)

\* longest list or mapping drawn for one representation of a principal record
MaxLen == 2
\* most entries a drawn principal record holds over its three representations
MaxItems == 2
\* longest inherits list of a drawn role catalog
MaxInherits == 2
\* normalize passes applied to one record
MaxCalls == 3

----------------------------------------------------------------------------
(* Python values *)

Absent == "<absent>"
None == "<None>"

\* bool(v) of a string or None
Truthy(v) == v \notin {Absent, None, ""}

\* d.get(key, default) on a looked-up value
GetOr(v, default) == IF v = Absent THEN default ELSE v

\* d.get(key): None when the key is missing
Get(v) == GetOr(v, None)

\* str.lower() on the strings the model draws
Lower(s) ==
    CASE s = "Admin" -> "admin"
      [] s = "ADMIN" -> "admin"
      [] s = "Instructor" -> "instructor"
      [] s = "INSTRUCTOR" -> "instructor"
      [] s = "TA" -> "ta"
      [] s = "Student" -> "student"
      [] OTHER -> s

Range(s) == {s[i] : i \in 1..Len(s)}

\* sequences over S of length at most n
SeqUpTo(S, n) == UNION {[1..k -> S] : k \in 0..n}

(* dict operations: a dict is a sequence of [key, value] pairs *)

Pair(k, v) == [key |-> k, value |-> v]

Keys(d) == {d[i].key : i \in 1..Len(d)}

HasKey(d, k) == k \in Keys(d)

Lookup(d, k) == d[CHOOSE i \in 1..Len(d) : d[i].key = k].value

\* d[k] = v
DictSet(d, k, v) ==
    IF HasKey(d, k)
    THEN [i \in 1..Len(d) |-> IF d[i].key = k THEN Pair(k, v) ELSE d[i]]
    ELSE Append(d, Pair(k, v))

\* del d[k]
DictDel(d, k) == SelectSeq(d, LAMBDA p : p.key # k)

\* d1 == d2
DictEq(d1, d2) == Range(d1) = Range(d2)

UniqueKeys(d) == \A i, j \in 1..Len(d) : d[i].key = d[j].key => i = j

Str(v) == [nested |-> FALSE, role |-> v]
Obj(v) == [nested |-> TRUE, role |-> v]

ListField(items) == [kind |-> "list", items |-> items]
DictField(items) == [kind |-> "dict", items |-> items]
AbsentField == [kind |-> "absent", items |-> <<>>]

IsList(f) == f.kind = "list"
IsDict(f) == f.kind = "dict"

\* user.get(field, []) / user.get(field, {}): the container, empty when missing
ItemsOf(f) == f.items

Entry(c, r, at, by) ==
    [class_id |-> c, role |-> r, assigned_at |-> at, assigned_by |-> by]

----------------------------------------------------------------------------
(* Role catalog and permission resolver: auth/permissions.py *)

RoleConfig(inherits, permissions) ==
    [inherits |-> inherits, permissions |-> permissions]

\* role_config of a role the catalog does not hold: {}
EmptyConfig == RoleConfig(<<>>, <<>>)

\* the catalog of auth/permissions.py; a missing 'inherits' key is the empty list
ROLE_PERMISSIONS ==
    [r \in {"admin", "instructor", "ta", "student"} |->
        CASE r = "admin" -> RoleConfig(<<>>, <<"*">>)
          [] r = "instructor" ->
                RoleConfig(<<"student">>,
                    <<"quiz.view", "quiz.create", "quiz.modify", "quiz.delete",
                      "student.view", "student.manage", "class.manage_enrollment",
                      "role.grant_ta", "class.add_instructor">>)
          [] r = "ta" ->
                RoleConfig(<<"student">>,
                    <<"quiz.view", "quiz.create", "quiz.modify", "student.view">>)
          [] r = "student" ->
                RoleConfig(<<>>, <<"quiz.view", "quiz.attempt", "own_data.view">>)]

\* the list without its repeated elements, first occurrences kept in order
RECURSIVE unique_permissions(_, _)
unique_permissions(permissions, seen) ==
    IF permissions = <<>> THEN <<>>
    ELSE IF Head(permissions) \in seen
         THEN unique_permissions(Tail(permissions), seen)
         ELSE <<Head(permissions)>>
              \o unique_permissions(Tail(permissions), seen \cup {Head(permissions)})

\* a resolver that expands the direct parents only
get_role_permissions_one_level(table, role, visited) ==
    LET role_config == IF role \in DOMAIN table THEN table[role] ELSE EmptyConfig
        parents == role_config.inherits
        direct(r) == IF r \in DOMAIN table THEN table[r].permissions ELSE <<>>
        RECURSIVE Inherited(_)
        Inherited(i) ==
            IF i > Len(parents) THEN <<>> ELSE direct(parents[i]) \o Inherited(i + 1)
    IN  [permissions |-> unique_permissions(role_config.permissions \o Inherited(1), {}),
         visited |-> visited \cup {role}]

\* get_role_permissions_with_inheritance(role, visited) over the catalog table:
\* the permission list returned and the visited set as the call leaves it
RECURSIVE get_role_permissions_with_inheritance(_, _, _)
get_role_permissions_with_inheritance(table, role, visited) ==
    IF role \in visited
    THEN [permissions |-> <<>>, visited |-> visited]
    ELSE LET role_config == IF role \in DOMAIN table THEN table[role] ELSE EmptyConfig
             parents == role_config.inherits
             \* the loop over role_config['inherits'], from parent i on
             RECURSIVE Extend(_, _, _)
             Extend(i, permissions, seen) ==
                 IF i > Len(parents)
                 THEN [permissions |-> permissions, visited |-> seen]
                 ELSE LET parent ==
                              get_role_permissions_with_inheritance(table, parents[i], seen)
                      IN  Extend(i + 1, permissions \o parent.permissions, parent.visited)
             all == Extend(1, role_config.permissions, visited \cup {role})
         IN  [permissions |-> unique_permissions(all.permissions, {}),
              visited |-> all.visited]

\* the permissions of a role, resolved from a fresh visited set
resolve(table, role) == get_role_permissions_with_inheritance(table, role, {}).permissions

----------------------------------------------------------------------------
(* Class-level role catalog: auth/class_auth.py *)

ClassAuth_ROLE_PERMISSIONS ==
    [r \in {"instructor", "ta", "student"} |->
        CASE r = "instructor" ->
                <<"manage_quizzes", "manage_tokens", "view_analytics",
                  "manage_members", "take_quizzes">>
          [] r = "ta" ->
                <<"manage_quizzes", "manage_tokens", "view_analytics",
                  "manage_members", "take_quizzes">>
          [] r = "student" -> <<"take_quizzes", "view_progress">>]

\* get_role_permissions(role): a flat lookup of the lower-cased role name
get_role_permissions(role) ==
    IF Lower(role) \in DOMAIN ClassAuth_ROLE_PERMISSIONS
    THEN ClassAuth_ROLE_PERMISSIONS[Lower(role)]
    ELSE <<>>

----------------------------------------------------------------------------
(* Principal records *)

MkUser(uid, roles, role, cm, cr, ac, access) ==
    [user_id |-> uid, roles |-> roles, role |-> role,
     class_memberships |-> cm, classRoles |-> cr, accessible_classes |-> ac,
     access |-> access]

\* equality of two principal documents: lists in order, dicts as mappings
UserEq(u, v) ==
    /\ u.user_id = v.user_id
    /\ u.roles = v.roles
    /\ u.role = v.role
    /\ u.class_memberships.kind = v.class_memberships.kind
    /\ IF IsDict(u.class_memberships)
       THEN DictEq(u.class_memberships.items, v.class_memberships.items)
       ELSE u.class_memberships.items = v.class_memberships.items
    /\ u.classRoles.kind = v.classRoles.kind
    /\ DictEq(u.classRoles.items, v.classRoles.items)
    /\ u.accessible_classes = v.accessible_classes
    /\ u.access = v.access

----------------------------------------------------------------------------
(* Membership normalizer: auth/class_membership_utils.py *)

\* a Priority 1 that returns the kept entries last to first
CanonicalFromList_reversed(ms) ==
    LET kept == SelectSeq(ms, LAMBDA m : m.class_id # Absent)
    IN  [i \in 1..Len(kept) |->
            LET m == kept[Len(kept) + 1 - i]
            IN  Entry(m.class_id, GetOr(m.role, "student"),
                      Get(m.assigned_at), Get(m.assigned_by))]

\* Priority 1: the entries of a class_memberships list that carry a class_id
CanonicalFromList(ms) ==
    LET kept == SelectSeq(ms, LAMBDA m : m.class_id # Absent)
    IN  [i \in 1..Len(kept) |->
            Entry(kept[i].class_id, GetOr(kept[i].role, "student"),
                  Get(kept[i].assigned_at), Get(kept[i].assigned_by))]

\* Priority 2: class_memberships stored as a mapping
CanonicalFromDict(d) ==
    [i \in 1..Len(d) |->
        LET value == d[i].value
            role == IF value.nested
                    THEN GetOr(value.role, "student")
                    ELSE IF Truthy(value.role) THEN value.role ELSE "student"
        IN  Entry(d[i].key, role, Absent, Absent)]

\* Priority 3: the classRoles mapping
CanonicalFromClassRoles(d) ==
    [i \in 1..Len(d) |->
        LET value == d[i].value
            role == IF value.nested THEN GetOr(value.role, "student")
                    ELSE value.role
        IN  Entry(d[i].key, IF Truthy(role) THEN role ELSE "student",
                  Absent, Absent)]

\* the role inferred for accessible_classes from the legacy global role
InferredRole(u) ==
    LET global_role == Lower(GetOr(u.role, ""))
    IN  IF global_role \in {"admin", "instructor"} THEN "instructor"
        ELSE IF global_role \in {"ta", "grader"} THEN "ta"
        ELSE "student"

\* Priority 4: accessible_classes with the inferred role
CanonicalFromAccessible(u) ==
    LET kept == SelectSeq(ItemsOf(u.accessible_classes), Truthy)
    IN  [i \in 1..Len(kept) |-> Entry(kept[i], InferredRole(u), Absent, Absent)]

\* a normalizer that merges accessible_classes into the canonical list
canonical_memberships_merged(u) ==
    (IF IsList(u.class_memberships) /\ u.class_memberships.items # <<>>
     THEN CanonicalFromList(u.class_memberships.items)
     ELSE IF IsDict(u.class_memberships) /\ u.class_memberships.items # <<>>
     THEN CanonicalFromDict(u.class_memberships.items)
     ELSE IF IsDict(u.classRoles) /\ u.classRoles.items # <<>>
     THEN CanonicalFromClassRoles(u.classRoles.items)
     ELSE <<>>)
    \o CanonicalFromAccessible(u)

\* the canonical list: the first populated source in priority order
canonical_memberships(u) ==
    LET class_memberships == u.class_memberships
        class_roles == u.classRoles
        accessible_classes == u.accessible_classes
    IN  IF IsList(class_memberships) /\ class_memberships.items # <<>>
        THEN CanonicalFromList(class_memberships.items)
        ELSE IF IsDict(class_memberships) /\ class_memberships.items # <<>>
        THEN CanonicalFromDict(class_memberships.items)
        ELSE IF IsDict(class_roles) /\ class_roles.items # <<>>
        THEN CanonicalFromClassRoles(class_roles.items)
        ELSE IF IsList(accessible_classes) /\ accessible_classes.items # <<>>
        THEN CanonicalFromAccessible(u)
        ELSE <<>>

\* new_class_roles: class_id -> role, assigned entry by entry
RECURSIVE new_class_roles(_, _)
new_class_roles(canonical, acc) ==
    IF canonical = <<>> THEN acc
    ELSE new_class_roles(Tail(canonical),
             DictSet(acc, Head(canonical).class_id, Str(Head(canonical).role)))

\* new_accessible_classes: the class ids of the canonical list, in order
new_accessible_classes(canonical) ==
    [i \in 1..Len(canonical) |-> canonical[i].class_id]

normalize_class_memberships(u) ==
    LET canonical == canonical_memberships(u)
    IN  [u EXCEPT
            !.class_memberships = ListField(canonical),
            !.classRoles = DictField(new_class_roles(canonical, <<>>)),
            !.accessible_classes = ListField(new_accessible_classes(canonical))]

----------------------------------------------------------------------------
(* Consistency checker: auth/class_membership_utils.py *)

Issue(kind, repr, classes, class_id, left, right) ==
    [kind |-> kind, repr |-> repr, classes |-> classes, class_id |-> class_id,
     left |-> left, right |-> right]

\* class ids of the class_memberships list
memberships_classes(u) ==
    IF IsList(u.class_memberships)
    THEN {m.class_id : m \in {x \in Range(u.class_memberships.items) :
                                  x.class_id # Absent}}
    ELSE {}

\* class_id -> role of the class_memberships list, the last entry winning
RECURSIVE RolesOfList(_, _)
RolesOfList(ms, acc) ==
    IF ms = <<>> THEN acc
    ELSE LET m == Head(ms)
         IN  RolesOfList(Tail(ms),
                 IF m.class_id # Absent
                 THEN DictSet(acc, m.class_id, Str(GetOr(m.role, "student")))
                 ELSE acc)

memberships_roles(u) ==
    IF IsList(u.class_memberships)
    THEN RolesOfList(u.class_memberships.items, <<>>)
    ELSE <<>>

roles_classes(u) == IF IsDict(u.classRoles) THEN Keys(u.classRoles.items) ELSE {}

accessible_set(u) ==
    IF IsList(u.accessible_classes)
    THEN {c \in Range(u.accessible_classes.items) : Truthy(c)}
    ELSE {}

\* the issues of one representation against the union of all three
ClassIssues(repr, classes, all_classes) ==
    IF classes # all_classes
    THEN (IF all_classes \ classes # {}
          THEN <<Issue("missing", repr, all_classes \ classes, Absent, Absent, Absent)>>
          ELSE <<>>)
         \o
         (IF classes \ all_classes # {}
          THEN <<Issue("extra", repr, classes \ all_classes, Absent, Absent, Absent)>>
          ELSE <<>>)
    ELSE <<>>

\* role mismatches between class_memberships and classRoles
RoleIssues(u) ==
    IF IsDict(u.classRoles)
    THEN LET roles == memberships_roles(u)
             both == SelectSeq(u.classRoles.items,
                         LAMBDA p : HasKey(roles, p.key) /\ Lookup(roles, p.key) # p.value)
         IN  [i \in 1..Len(both) |->
                 Issue("mismatch", "classRoles", {}, both[i].key,
                       Lookup(roles, both[i].key), both[i].value)]
    ELSE <<>>

check_format_consistency(u) ==
    LET all_classes == memberships_classes(u) \cup roles_classes(u) \cup accessible_set(u)
        inconsistencies ==
            ClassIssues("class_memberships", memberships_classes(u), all_classes)
            \o ClassIssues("classRoles", roles_classes(u), all_classes)
            \o ClassIssues("accessible_classes", accessible_set(u), all_classes)
            \o RoleIssues(u)
    IN  [is_consistent |-> Len(inconsistencies) = 0, issues |-> inconsistencies]


----------------------------------------------------------------------------
(* Decision functions: auth/permissions.py, auth/class_auth.py,            *)
(* auth/class_membership_utils.py                                          *)

\* the outcome of a permission check: the boolean returned, or the exception
Allowed(b) == [allowed |-> b, raised |-> FALSE]
Raised == [allowed |-> FALSE, raised |-> TRUE]

\* [r.lower() for r in user_roles if r]
RECURSIVE LowerRoles(_)
LowerRoles(roles) ==
    IF roles = <<>> THEN <<>>
    ELSE IF Truthy(Head(roles))
         THEN <<Lower(Head(roles))>> \o LowerRoles(Tail(roles))
         ELSE LowerRoles(Tail(roles))

\* '*' in role_permissions or permission in role_permissions
Grants(role, permission) ==
    LET role_permissions == Range(resolve(ROLE_PERMISSIONS, role))
    IN  "*" \in role_permissions \/ permission \in role_permissions

\* has_permission(user, permission, class_id); a record drawn always holds
\* the key roles, so that `not user` is false
has_permission(u, permission, class_id) ==
    LET user_roles == LowerRoles(u.roles)
        legacy_role == Lower(GetOr(u.role, ""))
        class_roles == ItemsOf(u.classRoles)
        \* class_roles.get(class_id, '')
        found == IF HasKey(class_roles, class_id)
                 THEN Lookup(class_roles, class_id) ELSE Str("")
        \* .lower() of None or of a nested object raises AttributeError
        lower_raises == Truthy(class_id) /\ (found.nested \/ found.role = None)
        class_role == IF Lower(found.role) = "user" THEN "student" ELSE Lower(found.role)
        by_class_role ==
            Truthy(class_id) /\ Lower(found.role) # "" /\ Grants(class_role, permission)
        by_access ==
            /\ Truthy(class_id)
            /\ class_roles = <<>>
            /\ class_id \in Range(ItemsOf(u.access))
            /\ Grants("student", permission)
        by_legacy_role ==
            legacy_role # "" /\ legacy_role # "user" /\ Grants(legacy_role, permission)
        by_global_roles ==
            \E i \in 1..Len(user_roles) :
                /\ user_roles[i] # "admin"
                /\ Grants(IF user_roles[i] = "user" THEN "student" ELSE user_roles[i],
                          permission)
    IN  IF "admin" \in Range(user_roles) THEN Allowed(TRUE)
        ELSE IF legacy_role = "admin" THEN Allowed(TRUE)
        ELSE IF lower_raises THEN Raised
        ELSE Allowed(by_class_role \/ by_access \/ by_legacy_role \/ by_global_roles)

\* the entries of a class_memberships list whose class_id is class_id, in
\* order: the loop returns on the first
EntriesFor(ms, class_id) == SelectSeq(ms, LAMBDA m : m.class_id = class_id)

\* the value a membership mapping returns for a class
RoleOfValue(value) == IF value.nested THEN Obj(value.role) ELSE Str(value.role)

\* the database fallback of get_user_class_role: the stored record of user_id
StoredClassRole(database, user_id, class_id) ==
    IF Truthy(user_id) /\ user_id \in DOMAIN database
    THEN LET db_user == database[user_id]
             db_class_memberships == db_user.class_memberships
             db_class_roles == ItemsOf(db_user.classRoles)
             memberships ==
                 IF IsDict(db_class_memberships) THEN <<>>
                 ELSE EntriesFor(ItemsOf(db_class_memberships), class_id)
         IN  IF memberships # <<>> THEN Str(Get(Head(memberships).role))
             ELSE IF HasKey(db_class_roles, class_id)
             THEN RoleOfValue(Lookup(db_class_roles, class_id))
             ELSE Str(None)
    ELSE Str(None)

\* get_user_class_role(user, class_id) over the store database: the value
\* returned, a string or None (Str) or a nested object (Obj)
get_user_class_role(u, class_id, database) ==
    LET class_memberships == u.class_memberships
        class_roles == ItemsOf(u.classRoles)
        accessible_classes == ItemsOf(u.accessible_classes)
        memberships ==
            IF IsDict(class_memberships) THEN <<>>
            ELSE EntriesFor(ItemsOf(class_memberships), class_id)
        global_role == Lower(GetOr(u.role, ""))
    IN  IF "admin" \in Range(u.roles) THEN Str("instructor")
        ELSE IF memberships # <<>> THEN Str(Get(Head(memberships).role))
        ELSE IF IsDict(class_memberships) /\ HasKey(class_memberships.items, class_id)
        THEN LET value == Lookup(class_memberships.items, class_id)
             IN  IF value.nested THEN Str(Get(value.role)) ELSE Str(value.role)
        ELSE IF HasKey(class_roles, class_id)
        THEN RoleOfValue(Lookup(class_roles, class_id))
        ELSE IF class_id \in Range(accessible_classes)
        THEN IF global_role \in {"admin", "instructor"} THEN Str("instructor")
             ELSE IF global_role = "ta" THEN Str("ta")
             ELSE Str("student")
        ELSE IF /\ ItemsOf(class_memberships) = <<>>
                /\ class_roles = <<>>
                /\ accessible_classes = <<>>
        THEN StoredClassRole(database, u.user_id, class_id)
        ELSE Str(None)

\* bool(role) of what get_user_class_role returned
RoleTruthy(role) == IF role.nested THEN role.role # Absent ELSE Truthy(role.role)

\* user_has_class_permission(user, class_id, permission)
user_has_class_permission(u, class_id, permission, database) ==
    LET role == get_user_class_role(u, class_id, database)
    IN  IF "admin" \in Range(u.roles) THEN Allowed(TRUE)
        ELSE IF ~RoleTruthy(role) THEN Allowed(FALSE)
        \* role.lower() of a nested object raises AttributeError
        ELSE IF role.nested THEN Raised
        ELSE Allowed(permission \in Range(get_role_permissions(role.role)))

\* the number of db.get('users', ...) calls one call of
\* get_user_class_role(user, class_id) performs: one, in the final fallback
StoreReads(u, class_id) ==
    IF "admin" \in Range(u.roles) THEN 0
    ELSE IF /\ ItemsOf(u.class_memberships) = <<>>
            /\ ItemsOf(u.classRoles) = <<>>
            /\ ItemsOf(u.accessible_classes) = <<>>
            /\ Truthy(u.user_id)
    THEN 1
    ELSE 0

\* what the decorator answers: the status, the role of the denial
\* explanation, and the store reads performed
Answer(status, raised, role, reads) ==
    [status |-> status, raised |-> raised, role |-> role, reads |-> reads]

\* require_class_permission(permission)(f) on request.jwt_user and the class
\* extracted from the request; f answers 200
require_class_permission(u, class_id, permission, database) ==
    LET check == user_has_class_permission(u, class_id, permission, database)
        user_role == get_user_class_role(u, class_id, database)
    IN  IF "admin" \in Range(u.roles) THEN Answer(200, FALSE, Str(None), 0)
        ELSE IF ~Truthy(class_id) THEN Answer(400, FALSE, Str(None), 0)
        ELSE IF check.raised
        THEN Answer(500, TRUE, Str(None), StoreReads(u, class_id))
        ELSE IF ~check.allowed
        THEN Answer(403, FALSE, user_role,
                    StoreReads(u, class_id) + StoreReads(u, class_id))
        ELSE Answer(200, FALSE, Str(None), StoreReads(u, class_id))

\* get_user_role_for_class(user, class_id)
get_user_role_for_class(u, class_id) ==
    LET class_memberships == u.class_memberships
        class_roles == ItemsOf(u.classRoles)
        accessible_classes == ItemsOf(u.accessible_classes)
        ms == IF IsDict(class_memberships) THEN <<>>
              ELSE EntriesFor(ItemsOf(class_memberships), class_id)
    IN  IF ~Truthy(class_id) THEN Str(None)
        ELSE IF ms # <<>> THEN Str(GetOr(Head(ms).role, "student"))
        ELSE IF HasKey(class_roles, class_id)
        THEN LET role == Lookup(class_roles, class_id)
             IN  IF role.nested THEN Str(GetOr(role.role, "student"))
                 ELSE IF Truthy(role.role) THEN Str(role.role) ELSE Str("student")
        ELSE IF class_id \in Range(accessible_classes) THEN Str("student")
        ELSE Str(None)

----------------------------------------------------------------------------
(* Record-level membership operations: auth/class_membership_utils.py *)

\* datetime.utcnow().isoformat() at the time of the call
Now == "t1"

\* list.remove(x): the list without the first occurrence of x
RemoveFirst(l, x) ==
    LET idx == {i \in 1..Len(l) : l[i] = x}
        first == CHOOSE i \in idx : \A j \in idx : i <= j
    IN  IF idx = {} THEN l
        ELSE [i \in 1..(Len(l) - 1) |-> IF i < first THEN l[i] ELSE l[i + 1]]

\* add_class_membership(user, class_id, role, assigned_by); a record drawn is
\* never the empty dict
add_class_membership(u, class_id, role, assigned_by) ==
    LET normalized == normalize_class_memberships(u)
        class_memberships == ItemsOf(normalized.class_memberships)
        class_roles == ItemsOf(normalized.classRoles)
        accessible_classes == ItemsOf(normalized.accessible_classes)
        existing == {i \in 1..Len(class_memberships) :
                        class_memberships[i].class_id = class_id}
        existing_idx == CHOOSE i \in existing : \A j \in existing : i <= j
        new_membership == Entry(class_id, role, Now, assigned_by)
    IN  [normalized EXCEPT
            !.class_memberships =
                ListField(IF existing # {}
                          THEN [class_memberships EXCEPT ![existing_idx] = new_membership]
                          ELSE Append(class_memberships, new_membership)),
            !.classRoles = DictField(DictSet(class_roles, class_id, Str(role))),
            !.accessible_classes =
                ListField(IF class_id \in Range(accessible_classes)
                          THEN accessible_classes
                          ELSE Append(accessible_classes, class_id))]

\* remove_class_membership(user, class_id)
remove_class_membership(u, class_id) ==
    [u EXCEPT
        !.class_memberships =
            IF IsDict(@) THEN @
            ELSE ListField(SelectSeq(@.items, LAMBDA m : m.class_id # class_id)),
        !.classRoles =
            IF HasKey(@.items, class_id)
            THEN DictField(DictDel(@.items, class_id)) ELSE @,
        !.accessible_classes =
            IF class_id \in Range(@.items)
            THEN ListField(RemoveFirst(@.items, class_id)) ELSE @]

----------------------------------------------------------------------------
(* Stored principal records the functions are applied to *)

ClassIds == {"", "a", "b"}

\* role values found in a membership entry
EntryRoles == {Absent, None, "ta", "instructor"}

\* entries of a class_memberships list, as the role-assignment code stores
\* them (with audit metadata); an entry may lack its class_id or its role
Entries ==
    {Entry(c, r, "t0", "u0") : c \in ClassIds \cup {Absent}, r \in EntryRoles}

\* values of a class-role mapping: bare role strings and nested {role: x}
DictValues == {Str(None), Str("ta"), Str("instructor"), Obj("ta"), Obj(Absent)}

Pairs == {Pair(c, v) : c \in ClassIds, v \in DictValues}

ListsOfSize(S, n) == [1..n -> S]

DictsOfSize(n) == {d \in [1..n -> Pairs] : UniqueKeys(d)}

\* class_memberships holding n items: missing or an empty list when n = 0
MembershipsOfSize(n) ==
    IF n = 0 THEN {AbsentField, ListField(<<>>)}
    ELSE {ListField(l) : l \in ListsOfSize(Entries, n)}
         \cup {DictField(d) : d \in DictsOfSize(n)}

ClassRolesOfSize(n) ==
    IF n = 0 THEN {AbsentField, DictField(<<>>)}
    ELSE {DictField(d) : d \in DictsOfSize(n)}

AccessibleOfSize(n) ==
    IF n = 0 THEN {AbsentField}
    ELSE {ListField(l) : l \in ListsOfSize(ClassIds, n)}

Sizes ==
    {s \in (0..MaxLen) \X (0..MaxLen) \X (0..MaxLen) : s[1] + s[2] + s[3] <= MaxItems}

LegacyRoles == {Absent, "Instructor", "grader"}

\* user is one of the principal records drawn: every shape of the three
\* representations, MaxItems entries at most over the three
DrawUser(uids, globalRoles, legacyRoles, accessLists) ==
    \E s \in Sizes :
        \E uid \in uids, roles \in globalRoles, role \in legacyRoles,
           cm \in MembershipsOfSize(s[1]), cr \in ClassRolesOfSize(s[2]),
           ac \in AccessibleOfSize(s[3]), access \in accessLists :
            user = MkUser(uid, roles, role, cm, cr, ac, access)

----------------------------------------------------------------------------
(* Values of the variables a specification does not use *)

NoUser == MkUser(Absent, <<>>, Absent, AbsentField, AbsentField, AbsentField, AbsentField)
NoCheck == [is_consistent |-> FALSE, issues |-> <<>>, done |-> FALSE]
NoDecision == [op |-> "none"]
NoResolved == {}
NoResponse == [op |-> "none"]
\* a log without activity
NoLog == [answers |-> <<>>, modifications |-> <<>>]

----------------------------------------------------------------------------
(* Specification SpecNorm: normalize and check applied to a stored record *)

\* records whose class a holds a role in both class_memberships and
\* classRoles, the two written in the same or in a different letter case
MixedCaseUsers ==
    {MkUser("u1", <<>>, Absent,
            ListField(<<Entry("a", left, "t0", "u0")>>),
            DictField(<<Pair("a", Str(right))>>),
            ListField(<<"a">>), AbsentField) :
        left \in {"ta", "TA"}, right \in {"ta", "TA", "instructor"}}

InitNorm ==
    /\ log = NoLog
    /\ \/ DrawUser({"u1"}, {<<>>}, LegacyRoles, {AbsentField})
       \/ user \in MixedCaseUsers
    /\ prevUser = user
    /\ calls = 0
    /\ lastOp = "load"
    /\ checkResult = NoCheck
    /\ decision = NoDecision
    /\ roleTable = <<>>
    /\ resolved = NoResolved
    /\ db = <<>>
    /\ tokens = <<>>
    /\ response = NoResponse

\* user = normalize_class_memberships(user)
Normalize ==
    /\ calls < MaxCalls
    /\ prevUser' = user
    /\ user' = normalize_class_memberships(user)
    /\ calls' = calls + 1
    /\ lastOp' = "normalize"
    /\ checkResult' = NoCheck
    /\ UNCHANGED <<log, decision, roleTable, resolved, db, tokens, response>>

\* check_format_consistency(user): reads the record, reports
CheckConsistency ==
    /\ ~checkResult.done
    /\ checkResult' = check_format_consistency(user) @@ [done |-> TRUE]
    /\ UNCHANGED <<log, user, prevUser, calls, lastOp, decision, roleTable, resolved,
                   db, tokens, response>>

NextNorm == Normalize \/ CheckConsistency

SpecNorm == InitNorm /\ [][NextNorm]_vars


----------------------------------------------------------------------------
(* Claims on the normalizer and the checker, under SpecNorm *)

\* C6: normalize is idempotent: a second pass over a normalized record
\* returns the same record, field for field.
C6_NormalizeIdempotent ==
    (lastOp = "normalize" /\ calls >= 2) => UserEq(user, prevUser)

\* the two records hold the same class ids and roles, in the same order, and
\* the same other fields; the audit metadata of v is that of u, a missing
\* key read as None
SameUpToMetadata(u, v) ==
    LET us == u.class_memberships.items
        vs == v.class_memberships.items
    IN  /\ IsList(u.class_memberships) /\ IsList(v.class_memberships)
        /\ Len(us) = Len(vs)
        /\ \A i \in 1..Len(us) :
              /\ us[i].class_id = vs[i].class_id
              /\ us[i].role = vs[i].role
              /\ vs[i].assigned_at = Get(us[i].assigned_at)
              /\ vs[i].assigned_by = Get(us[i].assigned_by)
        /\ UserEq([u EXCEPT !.class_memberships = ListField(<<>>)],
                  [v EXCEPT !.class_memberships = ListField(<<>>)])

\* C6 (amended): a second pass over a normalized record returns the same
\* class ids and roles in class_memberships, in the same order, the same
\* classRoles and the same accessible_classes; only the audit keys
\* assigned_at and assigned_by may differ, missing after the first pass and
\* None after the second; from the second pass on the record is a fixed point.
C6_NormalizeIdempotentUpToMetadata ==
    /\ (lastOp = "normalize" /\ calls >= 2) => SameUpToMetadata(prevUser, user)
    /\ (lastOp = "normalize" /\ calls >= 3) => UserEq(user, prevUser)

\* a second pass over two entries built from a mapping: the audit keys appear
C6_Witness ==
    /\ lastOp = "normalize"
    /\ calls = 2
    /\ Len(user.class_memberships.items) = 2
    /\ prevUser.class_memberships.items[1].assigned_at = Absent
    /\ user.class_memberships.items[1].assigned_at = None
    /\ user.class_memberships.items[1].class_id
          # user.class_memberships.items[2].class_id

\* C7: the consistency checker applied to a normalized record reports it
\* consistent, with no issue.
C7_NormalizedIsConsistent ==
    (lastOp = "normalize" /\ checkResult.done) =>
        (checkResult.is_consistent /\ checkResult.issues = <<>>)

\* the record normalize was first applied to had a populated class_memberships list
FromPopulatedList ==
    /\ lastOp = "normalize"
    /\ calls = 1
    /\ IsList(prevUser.class_memberships)
    /\ prevUser.class_memberships.items # <<>>

\* C8: when class_memberships is a populated list, the canonical list keeps
\* each of its entries with the role unchanged, and holds no class that
\* appears only in classRoles or accessible_classes.
C8_PrioritySourceExclusive ==
    FromPopulatedList =>
        /\ \A m \in Range(prevUser.class_memberships.items) :
              (m.class_id # Absent /\ m.role # Absent) =>
                  \E e \in Range(user.class_memberships.items) :
                      e.class_id = m.class_id /\ e.role = m.role
        /\ \A e \in Range(user.class_memberships.items) :
              \E m \in Range(prevUser.class_memberships.items) :
                  m.class_id = e.class_id

\* a list holding class a with role ta, class b only in accessible_classes
C8_Witness ==
    /\ FromPopulatedList
    /\ \E m \in Range(prevUser.class_memberships.items) :
          m.class_id = "a" /\ m.role = "ta"
    /\ "b" \in Range(prevUser.accessible_classes.items)
    /\ \A m \in Range(prevUser.class_memberships.items) : m.class_id # "b"
    /\ \E e \in Range(user.class_memberships.items) :
          e.class_id = "a" /\ e.role = "ta"


----------------------------------------------------------------------------
(* Specification SpecResolve: the resolver over configured catalogs,       *)
(* misconfigured ones (cycles, shared parents, unknown parents) included   *)

CatalogRoles == {"r1", "r2", "r3"}

\* the permissions a drawn catalog grants directly to a role
DirectPermissions(r) ==
    CASE r = "r1" -> <<"p1", "shared">>
      [] r = "r2" -> <<"p2", "shared">>
      [] r = "r3" -> <<"p3", "p3">>

InheritsLists == SeqUpTo(CatalogRoles, MaxInherits)

Resolved(resolver, role, permissions) ==
    [resolver |-> resolver, role |-> role, permissions |-> permissions]

InitResolve ==
    /\ log = NoLog
    /\ \E D \in SUBSET CatalogRoles :
          \E inherits \in [D -> InheritsLists] :
              roleTable = [r \in D |-> RoleConfig(inherits[r], DirectPermissions(r))]
    /\ resolved = {}
    /\ user = NoUser
    /\ prevUser = NoUser
    /\ calls = 0
    /\ lastOp = "load"
    /\ checkResult = NoCheck
    /\ decision = NoDecision
    /\ db = <<>>
    /\ tokens = <<>>
    /\ response = NoResponse

\* get_role_permissions_with_inheritance(role) on the configured catalog
ResolveRole(role) ==
    /\ resolved = {}
    /\ resolved' = {Resolved("permissions", role, resolve(roleTable, role))}
    /\ UNCHANGED <<log, user, prevUser, calls, lastOp, checkResult, decision,
                   roleTable, db, tokens, response>>

NextResolve == \E role \in CatalogRoles : ResolveRole(role)

SpecResolve == InitResolve /\ [][NextResolve]_vars

\* the roles reachable from the roles of S along inheritance edges
RECURSIVE Closure(_, _)
Closure(table, S) ==
    LET next == S \cup UNION {Range(table[r].inherits) : r \in S \cap DOMAIN table}
    IN  IF next = S THEN S ELSE Closure(table, next)

DirectOf(table, r) == IF r \in DOMAIN table THEN Range(table[r].permissions) ELSE {}

NoDuplicates(l) == \A i, j \in 1..Len(l) : l[i] = l[j] => i = j

\* C10: for every catalog, cycles and shared parents included, resolve(role)
\* returns exactly the direct permissions of the roles reachable from role,
\* each once, and nothing for a role the catalog does not hold.
C10_ResolveIsReachableUnion ==
    \A r \in resolved :
        /\ Range(r.permissions) =
               UNION {DirectOf(roleTable, q) : q \in Closure(roleTable, {r.role})}
        /\ NoDuplicates(r.permissions)
        /\ (r.role \notin DOMAIN roleTable => r.permissions = <<>>)

\* r1 and r2 inherit each other, r1 also inherits r3, which r2 inherits too
C10_Witness ==
    /\ DOMAIN roleTable = CatalogRoles
    /\ roleTable["r1"].inherits = <<"r2", "r3">>
    /\ roleTable["r2"].inherits = <<"r1", "r3">>
    /\ \E r \in resolved :
          r.role = "r1" /\ Range(r.permissions) = {"p1", "p2", "p3", "shared"}

----------------------------------------------------------------------------
(* Specification SpecCatalog: the two shipped catalogs, role by role *)

CatalogQueries == {"admin", "instructor", "ta", "student", "Instructor", "grader"}

InitCatalog ==
    /\ log = NoLog
    /\ roleTable = ROLE_PERMISSIONS
    /\ resolved = {}
    /\ user = NoUser
    /\ prevUser = NoUser
    /\ calls = 0
    /\ lastOp = "load"
    /\ checkResult = NoCheck
    /\ decision = NoDecision
    /\ db = <<>>
    /\ tokens = <<>>
    /\ response = NoResponse

\* permissions.get_role_permissions_with_inheritance(role)
ResolveGlobalRole(role) ==
    /\ resolved' = resolved \cup {Resolved("permissions", role, resolve(roleTable, role))}
    /\ UNCHANGED <<log, user, prevUser, calls, lastOp, checkResult, decision,
                   roleTable, db, tokens, response>>

\* class_auth.get_role_permissions(role)
ResolveClassRole(role) ==
    /\ resolved' = resolved \cup {Resolved("class_auth", role, get_role_permissions(role))}
    /\ UNCHANGED <<log, user, prevUser, calls, lastOp, checkResult, decision,
                   roleTable, db, tokens, response>>

NextCatalog ==
    \E role \in CatalogQueries : ResolveGlobalRole(role) \/ ResolveClassRole(role)

SpecCatalog == InitCatalog /\ [][NextCatalog]_vars

\* C9: in each catalog, what is resolved for instructor and for ta contains
\* everything resolved for student.
C9_InheritanceMonotone ==
    \A x, y \in resolved :
        (x.resolver = y.resolver /\ x.role = "student" /\ y.role \in {"instructor", "ta"})
            => Range(x.permissions) \subseteq Range(y.permissions)


----------------------------------------------------------------------------
(* Specification SpecDecide: the decision functions applied to a principal *)
(* record, as a request handler applies them to request.jwt_user           *)

\* the stored record the database fallback of get_user_class_role finds
FallbackStore ==
    [id \in {"u1"} |->
        MkUser("u1", <<>>, Absent,
               ListField(<<Entry("b", "ta", "t0", "u0")>>),
               DictField(<<Pair("a", Str("instructor"))>>),
               AbsentField, AbsentField)]

GlobalRoles == {<<>>, <<"admin">>, <<"Admin">>, <<"instructor">>}
DecideLegacyRoles == {Absent, "admin", "Instructor"}
AccessLists == {AbsentField, ListField(<<"a">>)}

QueriedClasses == {"a", "b"}
QueriedPermissions == {"quiz.delete", "manage_quizzes", "manage_members"}

Decision(op, class_id, permission, outcome, role) ==
    [op |-> op, class_id |-> class_id, permission |-> permission,
     allowed |-> outcome.allowed, raised |-> outcome.raised, role |-> role]

InitDecide ==
    /\ log = NoLog
    /\ DrawUser({Absent, "u1"}, GlobalRoles, DecideLegacyRoles, AccessLists)
    /\ db = FallbackStore
    /\ roleTable = ROLE_PERMISSIONS
    /\ decision = NoDecision
    /\ prevUser = user
    /\ calls = 0
    /\ lastOp = "load"
    /\ checkResult = NoCheck
    /\ resolved = NoResolved
    /\ tokens = <<>>
    /\ response = NoResponse

HasPermission(permission, class_id) ==
    /\ decision = NoDecision
    /\ decision' = Decision("has_permission", class_id, permission,
                            has_permission(user, permission, class_id), Str(None))
    /\ UNCHANGED <<log, user, prevUser, calls, lastOp, checkResult, roleTable,
                   resolved, db, tokens, response>>

UserHasClassPermission(class_id, permission) ==
    /\ decision = NoDecision
    /\ decision' = Decision("user_has_class_permission", class_id, permission,
                            user_has_class_permission(user, class_id, permission, db),
                            Str(None))
    /\ UNCHANGED <<log, user, prevUser, calls, lastOp, checkResult, roleTable,
                   resolved, db, tokens, response>>

GetUserClassRole(class_id) ==
    /\ decision = NoDecision
    /\ decision' = Decision("get_user_class_role", class_id, None, Allowed(FALSE),
                            get_user_class_role(user, class_id, db))
    /\ UNCHANGED <<log, user, prevUser, calls, lastOp, checkResult, roleTable,
                   resolved, db, tokens, response>>

GetUserRoleForClass(class_id) ==
    /\ decision = NoDecision
    /\ decision' = Decision("get_user_role_for_class", class_id, None, Allowed(FALSE),
                            get_user_role_for_class(user, class_id))
    /\ UNCHANGED <<log, user, prevUser, calls, lastOp, checkResult, roleTable,
                   resolved, db, tokens, response>>

RequireClassPermission(class_id, permission) ==
    /\ decision = NoDecision
    /\ LET answer == require_class_permission(user, class_id, permission, db)
       IN  decision' =
               Decision("require_class_permission", class_id, permission,
                        [allowed |-> answer.status = 200, raised |-> answer.raised],
                        answer.role)
               @@ [status |-> answer.status, reads |-> answer.reads]
    /\ UNCHANGED <<log, user, prevUser, calls, lastOp, checkResult, roleTable,
                   resolved, db, tokens, response>>

NextDecide ==
    \/ \E permission \in QueriedPermissions, class_id \in QueriedClasses \cup {None} :
          HasPermission(permission, class_id)
    \/ \E permission \in QueriedPermissions, class_id \in QueriedClasses :
          UserHasClassPermission(class_id, permission)
    \/ \E class_id \in QueriedClasses : GetUserClassRole(class_id)
    \/ \E class_id \in QueriedClasses : GetUserRoleForClass(class_id)
    \/ \E permission \in QueriedPermissions, class_id \in QueriedClasses \cup {None} :
          RequireClassPermission(class_id, permission)

SpecDecide == InitDecide /\ [][NextDecide]_vars

----------------------------------------------------------------------------
(* Claims on the decision functions, under SpecDecide *)

IsPermissionCheck == decision.op \in {"has_permission", "user_has_class_permission"}

\* admin in the global roles, compared case-insensitively, or as the legacy role
IsAdmin(u) == "admin" \in Range(LowerRoles(u.roles)) \/ u.role = "admin"

\* C1: a principal with admin among its global roles (in any case) or as its
\* legacy role is allowed every capability in every class, by has_permission
\* and by user_has_class_permission.
C1_AdminShortCircuit ==
    (IsPermissionCheck /\ IsAdmin(user)) => (decision.allowed /\ ~decision.raised)

\* the class role classRoles records for the class of the decision
HeldClassRole ==
    IF Truthy(decision.class_id) /\ HasKey(ItemsOf(user.classRoles), decision.class_id)
    THEN Lookup(ItemsOf(user.classRoles), decision.class_id)
    ELSE Str(None)

\* C2: with a class_id and a class role held for it, has_permission of a
\* non-admin principal allows exactly when the capability, or the wildcard,
\* is in the resolved set of that class role, whatever the global roles are.
C2_ClassRoleDecides ==
    (/\ decision.op = "has_permission"
     /\ ~IsAdmin(user)
     /\ ~HeldClassRole.nested
     /\ Truthy(HeldClassRole.role))
        => /\ ~decision.raised
           /\ decision.allowed <=>
                 ({"*", decision.permission}
                  \cap Range(resolve(ROLE_PERMISSIONS, Lower(HeldClassRole.role))) # {})

\* the principal is no admin and holds the role ta in the class of the decision
TaOfClass ==
    /\ ~IsAdmin(user)
    /\ \/ /\ decision.op = "user_has_class_permission"
          /\ get_user_class_role(user, decision.class_id, db) = Str("ta")
       \/ /\ decision.op = "has_permission"
          /\ HeldClassRole = Str("ta")

\* C3: a non-admin principal whose class role in a class is ta is allowed
\* manage_quizzes and denied manage_members in that class.
C3_TaCapabilities ==
    TaOfClass =>
        /\ decision.permission = "manage_quizzes" => decision.allowed
        /\ decision.permission = "manage_members" => ~decision.allowed

\* the entries of the canonical list normalize produces for the class
CanonicalFor(u, class_id) ==
    EntriesFor(canonical_memberships(u), class_id)

\* C4: the class role resolved at read time is the role the canonical list
\* of normalize records for the class, and no role when the list has no
\* entry for the class.
C4_ReadTimeRoleIsCanonical ==
    decision.op \in {"get_user_class_role", "get_user_role_for_class"} =>
        LET canonical == CanonicalFor(user, decision.class_id)
        IN  IF canonical = <<>>
            THEN decision.role = Str(None)
            ELSE decision.role = Str(Head(canonical).role)

----------------------------------------------------------------------------
(* Specification Spec: access tokens and the update-role route over the    *)
(* principal store                                                         *)

UserIds == {"u1", "u2"}
RouteClasses == {"a", "b"}

\* the email claim of the identity provider for a user
Email(u) == IF u = "u1" THEN "u1@jhu.edu" ELSE "u2@jhu.edu"

\* the role a request body carries: None when the key is missing
RequestedRoles == {None, "ta", "Instructor", "owner"}

\* the record api_callback creates on a first login
FreshUser(u, roles) ==
    MkUser(u, roles, Absent, ListField(<<>>), DictField(<<>>), ListField(<<>>),
           AbsentField)

\* a member of class a as assign_class_role stores it
ListMember(u, roles, r) ==
    MkUser(u, roles, Absent, ListField(<<Entry("a", r, "t0", "u0")>>),
           DictField(<<Pair("a", Str(r))>>), ListField(<<"a">>), AbsentField)

\* a member of class a in the earlier mapping format, {a: {role: r}}
NestedMember(u, roles, r) ==
    MkUser(u, roles, Absent, DictField(<<Pair("a", Obj(r))>>),
           DictField(<<Pair("a", Str(r))>>), ListField(<<"a">>), AbsentField)

\* a member of class a in the earlier mapping format, {a: r}
FlatMember(u, roles, r) ==
    MkUser(u, roles, Absent, DictField(<<Pair("a", Str(r))>>),
           AbsentField, AbsentField, AbsentField)

StoredRoles == {<<"student">>, <<"admin">>}
MemberRoles == {"student", "instructor"}

StoredUsers(u) ==
    {FreshUser(u, roles) : roles \in StoredRoles}
    \cup {ListMember(u, roles, r) : roles \in StoredRoles, r \in MemberRoles}
    \cup {NestedMember(u, roles, r) : roles \in StoredRoles, r \in MemberRoles}
    \cup {FlatMember(u, roles, r) : roles \in StoredRoles, r \in MemberRoles}

\* the payload of an access token
Token(email, claims) == [email |-> email, claims |-> claims]

\* generate_access_token(user_data): user_id is user_data.get('id'); classRoles
\* and class_memberships default to {} and []
generate_access_token(id, email, roles) ==
    Token(email, MkUser(id, roles, Absent, ListField(<<>>), DictField(<<>>),
                        AbsentField, AbsentField))

\* refresh_access_token: the new payload holds user_id and roles only
refresh_access_token(database, u) ==
    Token(Absent, MkUser(u, database[u].roles, Absent, AbsentField, AbsentField,
                         AbsentField, AbsentField))

WithToken(tok, u) == [x \in DOMAIN tokens \cup {u} |-> IF x = u THEN tok ELSE tokens[x]]

Init ==
    /\ log = NoLog
    /\ \E D \in SUBSET UserIds :
          \E stored \in [D -> UNION {StoredUsers(u) : u \in UserIds}] :
              /\ \A u \in D : stored[u].user_id = u
              /\ db = stored
    /\ tokens = [x \in {} |-> 0]
    /\ response = NoResponse
    /\ user = NoUser
    /\ prevUser = NoUser
    /\ calls = 0
    /\ lastOp = "load"
    /\ checkResult = NoCheck
    /\ decision = NoDecision
    /\ roleTable = ROLE_PERMISSIONS
    /\ resolved = NoResolved

\* api_callback for the identity u: the record is created on a first login,
\* the token is generated from the id-token claims, which hold no key 'id',
\* merged with the stored roles
ApiCallback(u) ==
    LET db_user == IF u \in DOMAIN db THEN db[u] ELSE FreshUser(u, <<"student">>)
    IN  /\ db' = [x \in DOMAIN db \cup {u} |-> IF x = u THEN db_user ELSE db[x]]
        /\ tokens' = WithToken(generate_access_token(None, Email(u), db_user.roles), u)
        /\ response' = [op |-> "callback", actor |-> u, status |-> 200]
        /\ UNCHANGED <<log, user, prevUser, calls, lastOp, checkResult, decision,
                       roleTable, resolved>>

\* api_get_session in development mode: the token is generated from
\* jwt_user_data, which holds the key 'id'
ApiGetSession(u) ==
    LET user_roles == IF u \in DOMAIN db THEN db[u].roles ELSE <<>>
    IN  /\ tokens' = WithToken(generate_access_token(u, Email(u), user_roles), u)
        /\ response' = [op |-> "session", actor |-> u, status |-> 200]
        /\ UNCHANGED <<log, user, prevUser, calls, lastOp, checkResult, decision,
                       roleTable, resolved, db>>

\* api_refresh with the refresh token issued to u
ApiRefresh(u) ==
    /\ u \in DOMAIN tokens
    /\ IF u \in DOMAIN db
       THEN /\ tokens' = WithToken(refresh_access_token(db, u), u)
            /\ response' = [op |-> "refresh", actor |-> u, status |-> 200]
       ELSE /\ tokens' = tokens
            /\ response' = [op |-> "refresh", actor |-> u, status |-> 401]
    /\ UNCHANGED <<log, user, prevUser, calls, lastOp, checkResult, decision,
                   roleTable, resolved, db>>

\* validate_role(role)
validate_role(role) == Lower(role) \in {"instructor", "ta", "student"}

Saved(database) == [raised |-> FALSE, db |-> database]
Raises(database) == [raised |-> TRUE, db |-> database]

\* update_class_role(user_id, class_id, new_role) on the store database: the
\* store as the call leaves it, and whether the call raised; the audit
\* keys updated_at and updated_by of the entry are not kept
update_class_role(database, user_id, class_id, new_role) ==
    IF Lower(new_role) \notin {"instructor", "ta", "grader", "student"}
    THEN Raises(database)
    ELSE IF user_id \notin DOMAIN database THEN Raises(database)
    ELSE LET stored == database[user_id]
             class_memberships == stored.class_memberships
         IN  \* class_id in a list of entries is false: the list holds dicts
             IF ~IsDict(class_memberships) \/ ~HasKey(class_memberships.items, class_id)
             THEN Raises(database)
             \* .get('role') of a bare role string raises AttributeError
             ELSE IF ~Lookup(class_memberships.items, class_id).nested
             THEN Raises(database)
             ELSE LET updated ==
                          [stored EXCEPT
                              !.class_memberships =
                                  DictField(DictSet(class_memberships.items, class_id,
                                                    Obj(Lower(new_role)))),
                              !.classRoles =
                                  IF stored.classRoles.kind = "absent" THEN @
                                  ELSE DictField(DictSet(@.items, class_id,
                                                         Str(Lower(new_role))))]
                  IN  Saved([database EXCEPT ![user_id] = updated])

UpdateResponse(actor, class_id, target, new_role, status) ==
    [op |-> "update_class_member", actor |-> actor, target |-> target,
     class_id |-> class_id, role |-> new_role, status |-> status,
     db_before |-> db]

\* PUT /api/classes/<class_id>/members/<user_id> with the bearer token of actor
ApiUpdateClassMember(actor, class_id, user_id, new_role) ==
    /\ actor \in DOMAIN tokens
    /\ LET current_user == tokens[actor].claims
           updated_by == IF Truthy(current_user.user_id)
                         THEN current_user.user_id
                         ELSE Get(tokens[actor].email)
           permitted == user_has_class_permission(current_user, class_id,
                                                  "manage_members", db)
           result == update_class_role(db, user_id, class_id, new_role)
           status ==
               IF ~Truthy(new_role) THEN 400
               ELSE IF ~validate_role(new_role) THEN 400
               ELSE IF permitted.raised THEN 500
               ELSE IF ~permitted.allowed THEN 403
               ELSE IF user_id = updated_by THEN 403
               ELSE IF result.raised THEN 500
               ELSE 200
       IN  /\ db' = IF status = 200 THEN result.db ELSE db
           /\ response' = UpdateResponse(actor, class_id, user_id, new_role, status)
    /\ UNCHANGED <<log, user, prevUser, calls, lastOp, checkResult, decision,
                   roleTable, resolved, tokens>>

Next ==
    \/ \E u \in UserIds : ApiCallback(u)
    \/ \E u \in UserIds : ApiGetSession(u)
    \/ \E u \in UserIds : ApiRefresh(u)
    \/ \E actor \in UserIds, class_id \in RouteClasses, user_id \in UserIds,
          new_role \in RequestedRoles :
          ApiUpdateClassMember(actor, class_id, user_id, new_role)

Spec == Init /\ [][Next]_vars

\* C5: an update-role request whose actor is its target is rejected, and
\* leaves the store as it was, whatever role the actor holds.
C5_NoSelfUpdate ==
    (response.op = "update_class_member" /\ response.actor = response.target)
        => (response.status # 200 /\ db = response.db_before)

----------------------------------------------------------------------------
(* Specification SpecMember: add and remove applied to a principal record *)

MemberClasses == {"a", "b"}
AddedRoles == {"student", "instructor"}

MemberCall(op, class_id, role) ==
    [op |-> op, class_id |-> class_id, role |-> role, raised |-> FALSE]

InitMember ==
    /\ log = NoLog
    /\ DrawUser({"u1"}, {<<>>}, LegacyRoles, {AbsentField})
    /\ prevUser = user
    /\ calls = 0
    /\ lastOp = "load"
    /\ response = NoResponse
    /\ checkResult = NoCheck
    /\ decision = NoDecision
    /\ roleTable = <<>>
    /\ resolved = NoResolved
    /\ db = <<>>
    /\ tokens = <<>>

\* user = add_class_membership(user, class_id, role, assigned_by)
AddClassMembership(class_id, role) ==
    /\ lastOp = "load"
    /\ prevUser' = user
    /\ user' = add_class_membership(user, class_id, role, "u0")
    /\ lastOp' = "add_class_membership"
    /\ response' = MemberCall("add_class_membership", class_id, role)
    /\ calls' = calls + 1
    /\ UNCHANGED <<log, checkResult, decision, roleTable, resolved, db, tokens>>

\* user = remove_class_membership(user, class_id)
RemoveClassMembership(class_id) ==
    /\ lastOp = "load"
    /\ prevUser' = user
    /\ user' = remove_class_membership(user, class_id)
    /\ lastOp' = "remove_class_membership"
    /\ response' = MemberCall("remove_class_membership", class_id, None)
    /\ calls' = calls + 1
    /\ UNCHANGED <<log, checkResult, decision, roleTable, resolved, db, tokens>>

NextMember ==
    \/ \E class_id \in MemberClasses, role \in AddedRoles :
          AddClassMembership(class_id, role)
    \/ \E class_id \in MemberClasses : RemoveClassMembership(class_id)

SpecMember == InitMember /\ [][NextMember]_vars

\* the class ids a record holds in class_memberships, list or mapping
MembershipClassIds(u) ==
    IF IsDict(u.class_memberships) THEN Keys(u.class_memberships.items)
    ELSE {m.class_id : m \in Range(u.class_memberships.items)} \ {Absent}

\* I1-I3: the three representations hold the same classes, and
\* class_memberships and classRoles the same role for each
RepresentationsAgree(u) ==
    /\ MembershipClassIds(u) = Keys(ItemsOf(u.classRoles))
    /\ MembershipClassIds(u) = Range(ItemsOf(u.accessible_classes))
    /\ IsList(u.class_memberships)
    /\ \A m \in Range(u.class_memberships.items) :
          Lookup(u.classRoles.items, m.class_id) = Str(m.role)

\* C11: add_membership(P, K, r) leaves exactly one class_memberships entry
\* for K, with role r, classRoles[K] = r and K in accessible_classes, and
\* the three representations agree on classes and roles.
C11_AddUpsertsOneEntry ==
    lastOp = "add_class_membership" =>
        LET K == response.class_id
            forK == EntriesFor(ItemsOf(user.class_memberships), K)
        IN  /\ Len(forK) = 1
            /\ forK[1].role = response.role
            /\ HasKey(ItemsOf(user.classRoles), K)
            /\ Lookup(ItemsOf(user.classRoles), K) = Str(response.role)
            /\ K \in Range(ItemsOf(user.accessible_classes))
            /\ RepresentationsAgree(user)

\* the record v is the record u without the class K, the rest as it was
WithoutClass(u, v, K) ==
    /\ K \notin MembershipClassIds(v)
    /\ K \notin Keys(ItemsOf(v.classRoles))
    /\ K \notin Range(ItemsOf(v.accessible_classes))
    /\ IF IsDict(u.class_memberships)
       THEN /\ IsDict(v.class_memberships)
            /\ DictEq(v.class_memberships.items, DictDel(u.class_memberships.items, K))
       ELSE ItemsOf(v.class_memberships)
                = SelectSeq(ItemsOf(u.class_memberships), LAMBDA m : m.class_id # K)
    /\ DictEq(ItemsOf(v.classRoles), DictDel(ItemsOf(u.classRoles), K))
    /\ ItemsOf(v.accessible_classes)
           = SelectSeq(ItemsOf(u.accessible_classes), LAMBDA c : c # K)

\* C12: after remove_membership(P, K), and after remove_class_role, K is in
\* none of class_memberships, classRoles and accessible_classes, and the
\* entries of the other classes are as before.
C12_RemoveDeletesEverywhere ==
    (lastOp \in {"remove_class_membership", "remove_class_role"} /\ ~response.raised)
        => WithoutClass(prevUser, user, response.class_id)

----------------------------------------------------------------------------
(* Store-level role operations: auth/class_auth.py *)

\* the list assign_class_role converts a membership mapping to
ListOfMapping(d) ==
    [i \in 1..Len(d) |->
        Entry(d[i].key,
              IF d[i].value.nested THEN GetOr(d[i].value.role, "student")
              ELSE d[i].value.role,
              Absent, Absent)]

\* assign_class_role(user_id, class_id, role, assigned_by) on the store
\* database: the store as the call leaves it, and whether the call raised
assign_class_role(database, user_id, class_id, role, assigned_by) ==
    IF Lower(role) \notin {"instructor", "ta", "grader", "student"}
    THEN Raises(database)
    ELSE IF user_id \notin DOMAIN database THEN Raises(database)
    ELSE LET stored == database[user_id]
             class_memberships ==
                 IF IsDict(stored.class_memberships)
                 THEN ListOfMapping(stored.class_memberships.items)
                 ELSE ItemsOf(stored.class_memberships)
             found == {i \in 1..Len(class_memberships) :
                          class_memberships[i].class_id = class_id}
             first == CHOOSE i \in found : \A j \in found : i <= j
             updated ==
                 [stored EXCEPT
                     !.class_memberships =
                         ListField(
                             IF found # {}
                             THEN [class_memberships EXCEPT
                                      ![first] = [@ EXCEPT !.role = Lower(role),
                                                           !.assigned_at = Now,
                                                           !.assigned_by = assigned_by]]
                             ELSE Append(class_memberships,
                                         Entry(class_id, Lower(role), Now, assigned_by))),
                     !.classRoles =
                         DictField(DictSet(@.items, class_id, Str(Lower(role)))),
                     !.accessible_classes =
                         ListField(IF class_id \in Range(@.items) THEN @.items
                                   ELSE Append(@.items, class_id))]
         IN  Saved([database EXCEPT ![user_id] = updated])

\* remove_class_role(user_id, class_id) on the store database
remove_class_role(database, user_id, class_id) ==
    IF user_id \notin DOMAIN database THEN Raises(database)
    ELSE LET stored == database[user_id]
             updated ==
                 [stored EXCEPT
                     !.class_memberships =
                         IF @.kind = "absent" THEN @
                         ELSE IF IsList(@)
                         THEN ListField(SelectSeq(@.items,
                                                  LAMBDA m : m.class_id # class_id))
                         ELSE DictField(DictDel(@.items, class_id)),
                     !.classRoles =
                         IF HasKey(@.items, class_id)
                         THEN DictField(DictDel(@.items, class_id)) ELSE @,
                     !.accessible_classes =
                         IF class_id \in Range(@.items)
                         THEN ListField(RemoveFirst(@.items, class_id)) ELSE @]
         IN  Saved([database EXCEPT ![user_id] = updated])

\* the record api_submit_answer creates for an identity the store lacks
NewStudent(user_id, course) ==
    MkUser(user_id, <<"student">>, Absent,
           ListField(<<Entry(course, "student", Absent, Absent)>>),
           DictField(<<>>), ListField(<<>>), AbsentField)

\* the auto-enrollment block of api_submit_answer on the store database: the
\* store as the block leaves it, and whether it raised (m.get of a mapping
\* key, or append on an empty mapping)
auto_enroll(database, user_id, course) ==
    IF user_id \notin DOMAIN database
    THEN Saved([id \in DOMAIN database \cup {user_id} |->
                   IF id = user_id THEN NewStudent(user_id, course)
                   ELSE database[id]])
    ELSE LET db_user == database[user_id]
             class_memberships == db_user.class_memberships
             already_enrolled ==
                 EntriesFor(ItemsOf(class_memberships), course) # <<>>
         IN  IF IsDict(class_memberships) THEN Raises(database)
             ELSE IF already_enrolled THEN Saved(database)
             ELSE Saved([database EXCEPT
                            ![user_id].class_memberships =
                                ListField(Append(ItemsOf(class_memberships),
                                                 Entry(course, "student",
                                                       Absent, Absent)))])

\* api_bulk_grant_permissions called by an admin with userIds [user_id], a
\* non-empty permissions list and classId class_id, on the store database
bulk_grant_permissions(database, user_id, class_id) ==
    IF user_id \notin DOMAIN database THEN Saved(database)
    ELSE LET stored == database[user_id]
             updated ==
                 IF Truthy(class_id)
                 THEN [stored EXCEPT
                          !.classRoles =
                              DictField(DictSet(IF IsDict(@) THEN @.items ELSE <<>>,
                                                class_id, Str("instructor")))]
                 ELSE [stored EXCEPT
                          !.roles = IF "instructor" \in Range(@) THEN @
                                    ELSE Append(@, "instructor")]
         IN  Saved([database EXCEPT ![user_id] = updated])

\* api_bulk_revoke_permissions called by an admin with userIds [user_id], a
\* non-empty permissions list and classId class_id, on the store database
bulk_revoke_permissions(database, user_id, class_id) ==
    IF user_id \notin DOMAIN database THEN Saved(database)
    ELSE LET stored == database[user_id]
             updated ==
                 IF Truthy(class_id)
                 THEN [stored EXCEPT
                          !.classRoles =
                              IF IsDict(@) /\ HasKey(@.items, class_id)
                              THEN DictField(DictDel(@.items, class_id)) ELSE @]
                 ELSE [stored EXCEPT !.roles = <<"student">>]
         IN  Saved([database EXCEPT ![user_id] = updated])

----------------------------------------------------------------------------
(* Specification SpecStore: role operations and answer submission on the *)
(* stored record of one principal                                          *)

StoreUsers == {"u1", "u2"}
StoreClasses == {"a", "b"}
AssignedRoles == {"TA", "grader", "owner"}
UpdatedRoles == {"instructor", "grader", "owner"}

\* a call made on the store, and the call it followed
StoreCall(op, user_id, class_id, role, raised) ==
    [op |-> op, user_id |-> user_id, class_id |-> class_id, role |-> role,
     raised |-> raised,
     after |-> IF lastOp = "load"
               THEN [op |-> "load", user_id |-> None, class_id |-> None,
                     raised |-> FALSE]
               ELSE [op |-> response.op, user_id |-> response.user_id,
                     class_id |-> response.class_id, raised |-> response.raised]]

InitStore ==
    /\ log = [NoLog EXCEPT !.answers = [p \in StoreUsers \X StoreClasses |-> 0]]
    /\ DrawUser({"u1"}, {<<>>}, {Absent}, {AbsentField})
    /\ db = [id \in {"u1"} |-> user]
    /\ prevUser = user
    /\ calls = 0
    /\ lastOp = "load"
    /\ response = NoResponse
    /\ checkResult = NoCheck
    /\ decision = NoDecision
    /\ roleTable = <<>>
    /\ resolved = NoResolved
    /\ tokens = <<>>

\* the store after a call, with the record of u1 before and after it
StoreStep(op, user_id, class_id, role, result) ==
    /\ db' = result.db
    /\ prevUser' = db["u1"]
    /\ user' = result.db["u1"]
    /\ lastOp' = op
    /\ response' = StoreCall(op, user_id, class_id, role, result.raised)
    /\ calls' = calls + 1
    /\ UNCHANGED <<log, checkResult, decision, roleTable, resolved, tokens>>

AssignClassRole(user_id, class_id, role) ==
    /\ lastOp = "load"
    /\ StoreStep("assign_class_role", user_id, class_id, role,
                 assign_class_role(db, user_id, class_id, role, "u0"))

UpdateClassRole(user_id, class_id, new_role) ==
    /\ lastOp \in {"load", "assign_class_role"}
    /\ StoreStep("update_class_role", user_id, class_id, new_role,
                 update_class_role(db, user_id, class_id, new_role))

RemoveClassRole(user_id, class_id) ==
    /\ lastOp \in {"load", "assign_class_role", "update_class_role"}
    /\ StoreStep("remove_class_role", user_id, class_id, None,
                 remove_class_role(db, user_id, class_id))

\* POST /api/quiz/submit-answer by user_id for a question of course, all fields given;
\* found: the quiz of the course holds the question
ApiSubmitAnswer(user_id, course, found) ==
    /\ lastOp \in {"load", "assign_class_role"}
    /\ LET result == auto_enroll(db, user_id, course)
           status == IF result.raised THEN 500 ELSE IF found THEN 200 ELSE 404
       IN  /\ db' = result.db
           /\ prevUser' = db["u1"]
           /\ user' = result.db["u1"]
           /\ response' = StoreCall("api_submit_answer", user_id, course, "student",
                                    result.raised) @@ [status |-> status]
           /\ log' = IF status = 200
                     THEN [log EXCEPT !.answers[<<user_id, course>>] = @ + 1]
                     ELSE log
    /\ lastOp' = "api_submit_answer"
    /\ calls' = calls + 1
    /\ UNCHANGED <<checkResult, decision, roleTable, resolved, tokens>>

\* POST /api/permissions/bulk-grant by an admin
ApiBulkGrantPermissions(user_id, class_id) ==
    /\ lastOp = "load"
    /\ StoreStep("api_bulk_grant_permissions", user_id, class_id, "instructor",
                 bulk_grant_permissions(db, user_id, class_id))

\* POST /api/permissions/bulk-revoke by an admin
ApiBulkRevokePermissions(user_id, class_id) ==
    /\ lastOp \in {"load", "api_bulk_grant_permissions"}
    /\ StoreStep("api_bulk_revoke_permissions", user_id, class_id, None,
                 bulk_revoke_permissions(db, user_id, class_id))

NextStore ==
    \/ \E user_id \in StoreUsers, class_id \in StoreClasses, role \in AssignedRoles :
          AssignClassRole(user_id, class_id, role)
    \/ \E user_id \in StoreUsers, course \in StoreClasses, found \in BOOLEAN :
          ApiSubmitAnswer(user_id, course, found)
    \/ \E user_id \in StoreUsers, class_id \in StoreClasses, role \in UpdatedRoles :
          UpdateClassRole(user_id, class_id, role)
    \/ \E user_id \in StoreUsers, class_id \in StoreClasses :
          RemoveClassRole(user_id, class_id)
    \/ \E user_id \in StoreUsers, class_id \in StoreClasses \cup {None} :
          ApiBulkGrantPermissions(user_id, class_id)
    \/ \E user_id \in StoreUsers, class_id \in StoreClasses \cup {None} :
          ApiBulkRevokePermissions(user_id, class_id)

SpecStore == InitStore /\ [][NextStore]_vars

\* an update of (u, K) with a valid role, right after a successful assign of (u, K)
UpdateAfterAssign ==
    /\ lastOp = "update_class_role"
    /\ response.after.op = "assign_class_role"
    /\ ~response.after.raised
    /\ response.after.user_id = response.user_id
    /\ response.after.class_id = response.class_id
    /\ Lower(response.role) \in {"instructor", "ta", "grader", "student"}

\* C13: update_class_role(u, K, r2) with a valid r2, following a successful
\* assign_class_role(u, K, r), succeeds and leaves a single entry for K with
\* role r2 in class_memberships, and classRoles[K] = r2.
C13_UpdateAfterAssignSucceeds ==
    UpdateAfterAssign =>
        LET K == response.class_id
            stored == db[response.user_id]
            forK == EntriesFor(ItemsOf(stored.class_memberships), K)
        IN  /\ ~response.raised
            /\ IsList(stored.class_memberships)
            /\ Len(forK) = 1
            /\ forK[1].role = Lower(response.role)
            /\ HasKey(ItemsOf(stored.classRoles), K)
            /\ Lookup(ItemsOf(stored.classRoles), K) = Str(Lower(response.role))

\* the role get_user_class_role resolves for the stored record u
ResolvedRole(u, class_id) ==
    get_user_class_role(u, class_id, [id \in {u.user_id} |-> u])

\* C14: auto-enrollment on answer submission creates a student membership
\* for (user, course) only when the user has no membership for the course,
\* and for a user who holds instructor or ta for the course, in whichever
\* representation, the role resolved for the course is the same after the
\* submission as before.
C14_AutoEnrollKeepsHigherRole ==
    (lastOp = "api_submit_answer" /\ response.user_id = "u1") =>
        LET K == response.class_id
            before == ResolvedRole(prevUser, K)
            after == ResolvedRole(user, K)
        IN  /\ (~before.nested /\ before.role \in {"instructor", "ta"})
                   => after = before
            /\ user # prevUser => K \notin MembershipClassIds(prevUser)

----------------------------------------------------------------------------
(* Enrollment backfill: scripts/migrate_student_enrollments.py *)

\* the teams and courses of the answer table, in the order of ORDER BY
MigTeams == <<"ab", "userA", "userB", "userC">>
MigCourses == <<"a", "b">>

\* the (team, course) groups of the answer table, ordered by team, course
PairsInOrder ==
    LET n == Len(MigCourses)
    IN  [i \in 1..(Len(MigTeams) * n) |->
            <<MigTeams[((i - 1) \div n) + 1], MigCourses[((i - 1) % n) + 1]>>]

\* is_placeholder(username) on the team names drawn: "" is empty and "ab" is
\* no longer than two characters; no drawn name contains a placeholder pattern
is_placeholder(username) == username \in {"", "ab"}

\* get_enrollments_from_answers(min_submissions): the groups holding
\* min_submissions answers at least, placeholders filtered out
get_enrollments_from_answers(answers, min_submissions) ==
    SelectSeq(PairsInOrder,
              LAMBDA p : /\ answers[p] >= min_submissions
                         /\ p[1] # ""
                         /\ ~is_placeholder(p[1]))

Analysis(raised, needs_enrollment, reason) ==
    [raised |-> raised, needs_enrollment |-> needs_enrollment, reason |-> reason]

\* analyze_user_enrollment(user, course): membership.get on a key of a
\* mapping, and None.lower() on a role of None, raise AttributeError
analyze_user_enrollment(u, course) ==
    LET class_memberships == u.class_memberships
        found == EntriesFor(ItemsOf(class_memberships), course)
        role == Lower(GetOr(Head(found).role, ""))
    IN  IF IsDict(class_memberships)
        THEN IF class_memberships.items # <<>>
             THEN Analysis(TRUE, FALSE, "AttributeError")
             ELSE Analysis(FALSE, TRUE, "missing_enrollment")
        ELSE IF found = <<>> THEN Analysis(FALSE, TRUE, "missing_enrollment")
        ELSE IF Head(found).role = None THEN Analysis(TRUE, FALSE, "AttributeError")
        ELSE IF role = "instructor" THEN Analysis(FALSE, FALSE, "already_instructor")
        ELSE IF role = "ta" THEN Analysis(FALSE, FALSE, "already_ta")
        ELSE IF role = "student" THEN Analysis(FALSE, FALSE, "already_student")
        ELSE Analysis(FALSE, TRUE, "unknown_role")

Stats == [user_not_found |-> 0, already |-> 0, needs_enrollment |-> 0,
          updated |-> 0, errors |-> 0]

\* the analysis loop of migrate_enrollments from the i-th enrollment on:
\* updates holds the record read for each pair that needs an enrollment;
\* an exception leaves the loop and the function
RECURSIVE AnalyzeFrom(_, _, _, _)
AnalyzeFrom(database, enrollments, i, acc) ==
    IF i > Len(enrollments) THEN acc
    ELSE LET student == enrollments[i][1]
             course == enrollments[i][2]
         IN  IF student \notin DOMAIN database
             THEN AnalyzeFrom(database, enrollments, i + 1,
                              [acc EXCEPT !.stats.user_not_found = @ + 1])
             ELSE LET analysis == analyze_user_enrollment(database[student], course)
                  IN  IF analysis.raised THEN [acc EXCEPT !.raised = TRUE]
                      ELSE IF ~analysis.needs_enrollment
                      THEN AnalyzeFrom(database, enrollments, i + 1,
                                       [acc EXCEPT !.stats.already = @ + 1])
                      ELSE AnalyzeFrom(database, enrollments, i + 1,
                               [acc EXCEPT
                                   !.stats.needs_enrollment = @ + 1,
                                   !.updates = Append(@, [user_id |-> student,
                                                          course |-> course,
                                                          user |-> database[student]])])

\* the write loop of migrate_enrollments from the i-th update on: the entry
\* is appended to the record read during the analysis, and that record is
\* written; append on a mapping raises, which the loop counts as an error
RECURSIVE ApplyFrom(_, _, _)
ApplyFrom(updates, i, acc) ==
    IF i > Len(updates) THEN acc
    ELSE LET update == updates[i]
             class_memberships == update.user.class_memberships
             written ==
                 [update.user EXCEPT
                     !.class_memberships =
                         ListField(Append(ItemsOf(class_memberships),
                                          Entry(update.course, "student",
                                                Absent, Absent)))]
         IN  IF IsDict(class_memberships)
             THEN ApplyFrom(updates, i + 1, [acc EXCEPT !.stats.errors = @ + 1])
             ELSE ApplyFrom(updates, i + 1,
                            [acc EXCEPT !.db[update.user_id] = written,
                                        !.stats.updated = @ + 1])

\* the pairs a run intends to write a student membership for
ProposedEnrollments(updates) ==
    {[user_id |-> updates[i].user_id, class_id |-> updates[i].course,
      role |-> "student"] : i \in 1..Len(updates)}

\* migrate_enrollments(dry_run, min_submissions) on the store database and
\* the answer table answers
migrate_enrollments(database, answers, dry_run, min_submissions) ==
    LET enrollments == get_enrollments_from_answers(answers, min_submissions)
        analysed == AnalyzeFrom(database, enrollments, 1,
                                [raised |-> FALSE, db |-> database,
                                 stats |-> Stats, updates |-> <<>>])
        applied == IF analysed.raised \/ dry_run THEN analysed
                   ELSE ApplyFrom(analysed.updates, 1, analysed)
    IN  [raised |-> applied.raised, db |-> applied.db, stats |-> applied.stats,
         proposed |-> ProposedEnrollments(applied.updates)]

----------------------------------------------------------------------------
(* Authorship backfill: scripts/migrate_user_permissions_v2.py *)

\* the principals of the store, in the order db.query returns them
MigUsers == <<"userA", "userB">>

\* build_quiz_modification_map(): user_id -> the classes whose quizzes hold
\* a change by the user; events are the (updated_by, class) of the change logs
build_quiz_modification_map(events) ==
    [user_id \in {e.updated_by : e \in {x \in events : Truthy(x.class)}}
                     \ {Absent, None, ""} |->
        {e.class : e \in {x \in events : x.updated_by = user_id /\ Truthy(x.class)}}]

\* user_modifications.get(user_id, set())
ModifiedClasses(user_modifications, user_id) ==
    IF user_id \in DOMAIN user_modifications THEN user_modifications[user_id]
    ELSE {}

\* determine_role_for_class(user, class_id, user_modifications), for a
\* classRoles value that has a lower()
determine_role_for_class(u, class_id, user_modifications) ==
    LET modified_this_class ==
            class_id \in ModifiedClasses(user_modifications, u.user_id)
        class_roles == ItemsOf(u.classRoles)
        role == Lower(Lookup(class_roles, class_id).role)
    IN  IF HasKey(class_roles, class_id)
        THEN IF modified_this_class
             THEN IF role \in {"instructor", "ta"} THEN role
                  ELSE IF role = "grader" THEN "ta"
                  ELSE "instructor"
             ELSE "student"
        ELSE IF modified_this_class THEN "instructor"
        ELSE "student"

\* get_all_user_classes(user)
get_all_user_classes(u) ==
    Keys(ItemsOf(u.classRoles)) \cup Range(ItemsOf(u.accessible_classes))

Migration(raised, status, reason, saved, role_assignments, updated_user) ==
    [raised |-> raised, status |-> status, reason |-> reason, saved |-> saved,
     role_assignments |-> role_assignments, updated_user |-> updated_user]

\* migrate_user without its write: the result and the document it builds.
\* order is the order in which the set user_classes is iterated;
\* class_roles[class_id].lower() raises on a nested object and on None; the
\* keys migrated_from and modified_quizzes of the entries are not kept
migration_of(u, user_modifications, order) ==
    LET class_roles == ItemsOf(u.classRoles)
        user_classes == get_all_user_classes(u)
        classes == SelectSeq(order, LAMBDA c : c \in user_classes)
        lower_raises ==
            \E c \in Keys(class_roles) :
                LET value == Lookup(class_roles, c)
                IN  value.nested \/ value.role = None
        class_memberships ==
            [i \in 1..Len(classes) |->
                Entry(classes[i],
                      determine_role_for_class(u, classes[i], user_modifications),
                      Now, "migration_script_v2")]
    IN  IF ItemsOf(u.class_memberships) # <<>>
        THEN Migration(FALSE, "skipped", "Already has class_memberships", FALSE, <<>>, u)
        ELSE IF user_classes = {}
        THEN Migration(FALSE, "skipped", "No classes to migrate", FALSE, <<>>, u)
        ELSE IF lower_raises
        THEN Migration(TRUE, "error", "AttributeError", FALSE, <<>>, u)
        ELSE Migration(FALSE, "migrated", "", TRUE, class_memberships,
                       [u EXCEPT !.class_memberships = ListField(class_memberships)])

\* migrate_user that upserts the document in a dry run as well
migrate_user_saving(u, user_modifications, dry_run, order) ==
    migration_of(u, user_modifications, order)

\* migrate_user(user, user_modifications, dry_run): saved tells whether the
\* document was upserted
migrate_user(u, user_modifications, dry_run, order) ==
    LET result == migration_of(u, user_modifications, order)
    IN  [result EXCEPT !.saved = @ /\ ~dry_run]

\* the loop of migrate_all_users from the i-th principal on
RECURSIVE MigrateFrom(_, _, _, _, _, _)
MigrateFrom(database, user_modifications, dry_run, order, i, acc) ==
    IF i > Len(MigUsers) THEN acc
    ELSE IF MigUsers[i] \notin DOMAIN database
    THEN MigrateFrom(database, user_modifications, dry_run, order, i + 1, acc)
    ELSE LET u == database[MigUsers[i]]
             result == migrate_user(u, user_modifications, dry_run, order)
             assignments ==
                 {[user_id |-> u.user_id,
                   class_id |-> result.role_assignments[k].class_id,
                   role |-> result.role_assignments[k].role] :
                      k \in 1..Len(result.role_assignments)}
         IN  MigrateFrom(database, user_modifications, dry_run, order, i + 1,
                 [acc EXCEPT
                     !.db = IF result.saved
                            THEN [@ EXCEPT ![u.user_id] = result.updated_user]
                            ELSE @,
                     !.stats.updated = IF result.status = "migrated" THEN @ + 1 ELSE @,
                     !.stats.already = IF result.status = "skipped" THEN @ + 1 ELSE @,
                     !.stats.errors = IF result.raised THEN @ + 1 ELSE @,
                     !.proposed = @ \cup assignments])

\* migrate_all_users(dry_run) on the store database and the change events
migrate_all_users(database, events, dry_run, order) ==
    MigrateFrom(database, build_quiz_modification_map(events), dry_run, order, 1,
                [raised |-> FALSE, db |-> database, stats |-> Stats,
                 proposed |-> {}])

----------------------------------------------------------------------------
(* Format sync: migrations/sync_class_memberships.py *)

\* value if value else 'student', and value.get('role', 'student') of a
\* nested object
SyncRoleOf(value) ==
    IF value.nested THEN GetOr(value.role, "student")
    ELSE IF Truthy(value.role) THEN value.role ELSE "student"

\* memberships_roles of check_user_consistency: the role of the last list
\* entry of the class
SyncListRole(ms, class_id) ==
    LET found == EntriesFor(ms, class_id)
    IN  GetOr(found[Len(found)].role, "student")

\* is_consistent of check_user_consistency(user): no issue was found
check_user_consistency(u) ==
    LET class_memberships == u.class_memberships
        class_roles == ItemsOf(u.classRoles)
        in_memberships == MembershipClassIds(u)
        in_roles == Keys(class_roles)
        in_accessible == {c \in Range(ItemsOf(u.accessible_classes)) : Truthy(c)}
        all_classes == in_memberships \cup in_roles \cup in_accessible
        memberships_role(c) ==
            IF IsDict(class_memberships)
            THEN SyncRoleOf(Lookup(class_memberships.items, c))
            ELSE SyncListRole(class_memberships.items, c)
    IN  /\ ~IsDict(class_memberships)
        /\ all_classes \ in_memberships = {}
        /\ all_classes \ in_roles = {}
        /\ all_classes \ in_accessible = {}
        /\ \A c \in in_memberships \cap in_roles :
              memberships_role(c) = SyncRoleOf(Lookup(class_roles, c))

\* the entries of l whose class is not the class of an earlier entry
RECURSIVE FirstPerClass(_, _)
FirstPerClass(l, seen) ==
    IF l = <<>> THEN <<>>
    ELSE IF Head(l).class_id \in seen THEN FirstPerClass(Tail(l), seen)
    ELSE <<Head(l)>> \o FirstPerClass(Tail(l), seen \cup {Head(l).class_id})

\* the role fix_user_consistency infers for accessible_classes
SyncInferredRole(u) ==
    LET global_role == Lower(GetOr(u.role, ""))
    IN  IF global_role \in {"admin", "instructor"} THEN "instructor"
        ELSE IF global_role = "ta" THEN "ta"
        ELSE IF global_role = "grader" THEN "grader"
        ELSE "student"

\* fix_user_consistency(user): the record with the three formats rebuilt from
\* class_memberships, then classRoles, then accessible_classes
fix_user_consistency(u) ==
    LET class_memberships == u.class_memberships
        class_roles == ItemsOf(u.classRoles)
        accessible_classes == ItemsOf(u.accessible_classes)
        from_list ==
            LET kept == SelectSeq(class_memberships.items,
                                  LAMBDA m : m.class_id # Absent)
            IN  [i \in 1..Len(kept) |->
                    Entry(kept[i].class_id, GetOr(kept[i].role, "student"),
                          Get(kept[i].assigned_at), Get(kept[i].assigned_by))]
        from_dict ==
            [i \in 1..Len(class_memberships.items) |->
                Entry(class_memberships.items[i].key,
                      SyncRoleOf(class_memberships.items[i].value),
                      Absent, Absent)]
        from_roles ==
            [i \in 1..Len(class_roles) |->
                Entry(class_roles[i].key,
                      LET role == IF class_roles[i].value.nested
                                  THEN GetOr(class_roles[i].value.role, "student")
                                  ELSE class_roles[i].value.role
                      IN  IF Truthy(role) THEN role ELSE "student",
                      Absent, Absent)]
        from_accessible ==
            LET kept == SelectSeq(accessible_classes, LAMBDA c : Truthy(c))
            IN  [i \in 1..Len(kept) |->
                    Entry(kept[i], SyncInferredRole(u), Absent, Absent)]
        canonical ==
            FirstPerClass((IF IsDict(class_memberships) THEN from_dict ELSE from_list)
                              \o from_roles \o from_accessible, {})
    IN  [u EXCEPT
            !.class_memberships = ListField(canonical),
            !.classRoles =
                DictField([i \in 1..Len(canonical) |->
                              Pair(canonical[i].class_id, Str(canonical[i].role))]),
            !.accessible_classes =
                ListField([i \in 1..Len(canonical) |-> canonical[i].class_id])]

\* the loop of run_sync(dry_run, fix) from the i-th principal on
RECURSIVE SyncFrom(_, _, _, _, _)
SyncFrom(database, dry_run, fix, i, acc) ==
    IF i > Len(MigUsers) THEN acc
    ELSE IF MigUsers[i] \notin DOMAIN database
    THEN SyncFrom(database, dry_run, fix, i + 1, acc)
    ELSE LET u == database[MigUsers[i]]
         IN  IF check_user_consistency(u)
             THEN SyncFrom(database, dry_run, fix, i + 1,
                           [acc EXCEPT !.stats.already = @ + 1])
             ELSE IF fix /\ ~dry_run
             THEN SyncFrom(database, dry_run, fix, i + 1,
                           [acc EXCEPT !.db[u.user_id] = fix_user_consistency(u),
                                       !.stats.needs_enrollment = @ + 1,
                                       !.stats.updated = @ + 1])
             ELSE SyncFrom(database, dry_run, fix, i + 1,
                           [acc EXCEPT !.stats.needs_enrollment = @ + 1])

\* run_sync(dry_run, fix) over all principals of the store database
run_sync(database, dry_run, fix) ==
    SyncFrom(database, dry_run, fix, 1,
             [raised |-> FALSE, db |-> database, stats |-> Stats, proposed |-> {}])

----------------------------------------------------------------------------
(* Specification SpecMigrate: one run, or two live runs in a row, of a     *)
(* backfill script over a store of two principals and an activity log      *)

\* --min-submissions, by default
MinSubmissions == 5

\* the change-log events drawn: (updated_by, class)
ChangeEvents == {[updated_by |-> "userA", class |-> "a"]}

\* a principal created on login, without any class
CleanUser(user_id) ==
    MkUser(user_id, <<>>, Absent, AbsentField, AbsentField, AbsentField, AbsentField)

\* the answer table: the number of answers of each (team, course); the
\* table also holds the answers of a placeholder team and of a team the
\* store lacks
AnswerTable(nAa, nAb, nBa) ==
    [p \in Range(PairsInOrder) |->
        CASE p = <<"userA", "a">> -> nAa
          [] p = <<"userA", "b">> -> nAb
          [] p = <<"userB", "a">> -> nBa
          [] p = <<"userC", "a">> -> MinSubmissions
          [] p = <<"ab", "a">> -> MinSubmissions
          [] OTHER -> 0]

InitMigrate ==
    /\ DrawUser({"userA"}, {<<>>}, {Absent}, {AbsentField})
    /\ db = [id \in Range(MigUsers) |->
                IF id = "userA" THEN user ELSE CleanUser(id)]
    /\ \E nAa \in {0, MinSubmissions - 1, MinSubmissions},
          nAb \in {0, MinSubmissions}, nBa \in {0, MinSubmissions},
          events \in SUBSET ChangeEvents :
          log = [answers |-> AnswerTable(nAa, nAb, nBa),
                 modifications |-> events]
    /\ prevUser = user
    /\ calls = 0
    /\ lastOp = "load"
    /\ response = NoResponse
    /\ checkResult = NoCheck
    /\ decision = NoDecision
    /\ roleTable = <<>>
    /\ resolved = NoResolved
    /\ tokens = <<>>

\* a script may run on the loaded store, and live once more after a live run
\* of the same script
MayRun(op, dry_run) ==
    \/ lastOp = "load"
    \/ /\ lastOp = op
       /\ response.after.op = "load"
       /\ ~response.dry_run
       /\ ~dry_run

\* the report of a run: its mode, whether it was aborted by an exception,
\* its counters and intended writes, the store it started from and the run
\* it followed
Report(op, dry_run, fix, result) ==
    [op |-> op, dry_run |-> dry_run, fix |-> fix, raised |-> result.raised,
     stats |-> result.stats, proposed |-> result.proposed, before |-> db,
     after |-> IF lastOp = "load" THEN [op |-> "load", dry_run |-> FALSE]
               ELSE [op |-> response.op, dry_run |-> response.dry_run]]

\* the store and the report after a run
MigrationStep(op, dry_run, fix, result) ==
    /\ db' = result.db
    /\ prevUser' = db["userA"]
    /\ user' = result.db["userA"]
    /\ lastOp' = op
    /\ response' = Report(op, dry_run, fix, result)
    /\ calls' = calls + 1
    /\ UNCHANGED <<log, checkResult, decision, roleTable, resolved, tokens>>

\* python migrate_student_enrollments.py [--dry-run]
MigrateEnrollments(dry_run) ==
    /\ MayRun("migrate_enrollments", dry_run)
    /\ MigrationStep("migrate_enrollments", dry_run, FALSE,
                     migrate_enrollments(db, log.answers, dry_run, MinSubmissions))

\* orders in which the set user_classes may be iterated: two, which give
\* both orders of any two classes
ClassOrders == {<<"", "a", "b">>, <<"b", "a", "">>}

\* python migrate_user_permissions_v2.py [--execute]
MigrateAllUsers(dry_run, order) ==
    /\ MayRun("migrate_all_users", dry_run)
    /\ MigrationStep("migrate_all_users", dry_run, FALSE,
                     migrate_all_users(db, log.modifications, dry_run, order))

\* python sync_class_memberships.py [--dry-run] [--fix]
RunSync(dry_run, fix) ==
    /\ MayRun("run_sync", dry_run)
    /\ MigrationStep("run_sync", dry_run, fix, run_sync(db, dry_run, fix))

NextMigrate ==
    \/ \E dry_run \in BOOLEAN : MigrateEnrollments(dry_run)
    \/ \E dry_run \in BOOLEAN, order \in ClassOrders : MigrateAllUsers(dry_run, order)
    \/ \E dry_run \in BOOLEAN, fix \in BOOLEAN : RunSync(dry_run, fix)

SpecMigrate == InitMigrate /\ [][NextMigrate]_vars

\* C15: a live run of the enrollment heuristic on a principal who holds
\* instructor or ta for class K, in whichever stored representation, leaves
\* the role that principal holds for K as it was, whatever the number of
\* submissions.
C15_EnrollmentKeepsHigherRole ==
    (lastOp = "migrate_enrollments" /\ ~response.dry_run) =>
        \A user_id \in DOMAIN db, K \in Range(MigCourses) :
            LET before == ResolvedRole(response.before[user_id], K)
            IN  (~before.nested /\ before.role \in {"instructor", "ta"})
                    => ResolvedRole(db[user_id], K) = before

\* the user holds no membership and no role for K in the stored record u
NoMembershipFor(u, K) ==
    /\ K \notin MembershipClassIds(u)
    /\ K \notin Keys(ItemsOf(u.classRoles))
    /\ K \notin Range(ItemsOf(u.accessible_classes))

\* C16: for a user who appears in the content-modification map for class K
\* and has no membership or role for K, the authorship migration proposes
\* the membership {class_id: K, role: instructor} in a dry run, and a live
\* run persists exactly that membership for the user.
C16_ModifierBecomesInstructor ==
    (lastOp = "migrate_all_users" /\ response.after.op = "load") =>
        \A e \in log.modifications :
            (/\ e.updated_by \in DOMAIN db
             /\ NoMembershipFor(response.before[e.updated_by], e.class)) =>
                /\ [user_id |-> e.updated_by, class_id |-> e.class,
                    role |-> "instructor"] \in response.proposed
                /\ ~response.dry_run =>
                      LET forK == EntriesFor(ItemsOf(db[e.updated_by].class_memberships),
                                             e.class)
                      IN  /\ IsList(db[e.updated_by].class_memberships)
                          /\ Len(forK) = 1
                          /\ forK[1].role = "instructor"

\* C17: in dry-run mode neither backfill heuristic nor the sync script
\* writes: the store after a dry run is the store before it.
C17_DryRunWritesNothing ==
    (lastOp \in {"migrate_enrollments", "migrate_all_users", "run_sync"}
        /\ response.dry_run) => db = response.before

\* a dry run of the authorship heuristic that reports intended writes
C17_Witness ==
    /\ lastOp = "migrate_all_users"
    /\ response.dry_run
    /\ response.proposed # {}
    /\ response.stats.updated > 0

\* C18: each backfill heuristic is idempotent on the store: a second live
\* run in a row writes nothing, the store is the one the first run left.
C18_SecondRunWritesNothing ==
    (/\ lastOp \in {"migrate_enrollments", "migrate_all_users"}
     /\ ~response.dry_run
     /\ response.after.op = lastOp
     /\ ~response.after.dry_run) => db = response.before

\* C19: a failure while processing one principal, or one (student, course)
\* pair, is recorded in the error report of the run and the batch goes on
\* with the remaining records: no run of a heuristic is aborted by an
\* exception, in the analysis or in the write phase.
C19_BatchIsNeverAborted ==
    lastOp \in {"migrate_enrollments", "migrate_all_users"} => ~response.raised

----------------------------------------------------------------------------
(* Tolerance of malformed records: specification SpecDecide *)

\* C20: has_permission and the class-role lookup never raise, whatever the
\* fields class_memberships, classRoles, accessible_classes, roles and role
\* of the principal record hold: a representation that is not of the
\* expected shape is treated as empty.
C20_DecisionsNeverRaise ==
    decision.op \in {"has_permission", "get_user_class_role"} => ~decision.raised

----------------------------------------------------------------------------
(* Role names accepted by the store operations: specification SpecStore *)

\* C21: assign_class_role and update_class_role reject every role name
\* outside the enumeration {instructor, ta, student}, and the rejected call
\* writes nothing to the store.
C21_RoleOutsideEnumerationRejected ==
    (/\ lastOp \in {"assign_class_role", "update_class_role"}
     /\ Lower(response.role) \notin {"instructor", "ta", "student"})
        => (response.raised /\ db = [id \in {"u1"} |-> prevUser])

----------------------------------------------------------------------------
(* Store reads of a decision: specification SpecDecide *)

\* C22: every authorization decision on the request path, allow or deny, the
\* construction of the denial explanation included, performs at most one
\* read of the principal store.
C22_AtMostOneStoreRead ==
    decision.op = "require_class_permission" => decision.reads <= 1

----------------------------------------------------------------------------
(* Role comparison of the checker: specification SpecNorm *)

\* a role value lower-cased for comparison
LowerValue(value) == [value EXCEPT !.role = Lower(@)]

\* the checker reported a role mismatch for class K
MismatchReported(K) ==
    \E i \in 1..Len(checkResult.issues) :
        checkResult.issues[i].kind = "mismatch" /\ checkResult.issues[i].class_id = K

\* C23: the checker reports a role mismatch for class K exactly when K holds
\* a role in both class_memberships and classRoles and the two roles differ
\* after lower-casing both sides.
C23_MismatchIffRolesDifferLowerCased ==
    checkResult.done =>
        \A K \in memberships_classes(user) \cup roles_classes(user) :
            MismatchReported(K) <=>
                /\ HasKey(memberships_roles(user), K)
                /\ HasKey(ItemsOf(user.classRoles), K)
                /\ LowerValue(Lookup(memberships_roles(user), K))
                      # LowerValue(Lookup(ItemsOf(user.classRoles), K))

----------------------------------------------------------------------------
(* Role values after normalize: specification SpecNorm *)

\* C24: after normalize every role value in class_memberships and in
\* classRoles is one of instructor, ta, student, whichever representation
\* the canonical list was built from.
C24_NormalizedRolesInEnumeration ==
    lastOp = "normalize" =>
        /\ \A m \in Range(ItemsOf(user.class_memberships)) :
              m.role \in {"instructor", "ta", "student"}
        /\ \A p \in Range(ItemsOf(user.classRoles)) :
              ~p.value.nested /\ p.value.role \in {"instructor", "ta", "student"}

----------------------------------------------------------------------------
(* Letter case of the role name: specification SpecCatalog *)

\* C25: each resolver returns the same capability set for a role name
\* whatever its letter case.
C25_ResolverCaseInsensitive ==
    \A x, y \in resolved :
        (x.resolver = y.resolver /\ Lower(x.role) = Lower(y.role))
            => Range(x.permissions) = Range(y.permissions)

----------------------------------------------------------------------------
(* Enrollments written by a live run: specification SpecMigrate *)

\* C26: after a live run of the enrollment heuristic every (student, course)
\* pair the run reported as needing enrollment is a student membership in
\* the stored class_memberships of that student, also when one student has
\* two such courses in the run.
C26_ReportedEnrollmentsStored ==
    (lastOp = "migrate_enrollments" /\ ~response.dry_run /\ ~response.raised) =>
        \A p \in response.proposed :
            /\ IsList(db[p.user_id].class_memberships)
            /\ \E m \in Range(db[p.user_id].class_memberships.items) :
                  m.class_id = p.class_id /\ m.role = "student"

----------------------------------------------------------------------------
(* Specification SpecManage: the member-management routes called by one   *)
(* principal, a ta or a student of class a, with its own bearer token      *)

\* the class role the actor starts with in class a
ActorRoles == {"ta", "student"}

\* the payloads of the bearer token the actor may hold: as api_get_session,
\* api_refresh and api_callback issue it
ActorTokens(database, u) ==
    {generate_access_token(u, Email(u), database[u].roles),
     refresh_access_token(database, u),
     generate_access_token(None, Email(u), database[u].roles)}

InitManage ==
    /\ log = NoLog
    /\ \E r \in ActorRoles, other \in StoredUsers("u2") :
          db = [id \in UserIds |->
                   IF id = "u1" THEN ListMember("u1", <<"student">>, r) ELSE other]
    /\ \E tok \in ActorTokens(db, "u1") : tokens = [x \in {"u1"} |-> tok]
    /\ user = db["u1"]
    /\ prevUser = db["u1"]
    /\ response = NoResponse
    /\ calls = 0
    /\ lastOp = "load"
    /\ checkResult = NoCheck
    /\ decision = NoDecision
    /\ roleTable = ROLE_PERMISSIONS
    /\ resolved = NoResolved

MemberResponse(op, actor, class_id, target, role, status) ==
    [op |-> op, actor |-> actor, target |-> target, class_id |-> class_id,
     role |-> role, status |-> status, db_before |-> db]

\* POST /api/classes/<class_id>/members with the bearer token of actor and
\* the body {user_id, role}
ApiAddClassMember(actor, class_id, user_id, role) ==
    /\ actor \in DOMAIN tokens
    /\ LET current_user == tokens[actor].claims
           assigned_by == IF Truthy(current_user.user_id)
                          THEN current_user.user_id
                          ELSE Get(tokens[actor].email)
           permitted == user_has_class_permission(current_user, class_id,
                                                  "manage_members", db)
           result == assign_class_role(db, user_id, class_id, role, assigned_by)
           status ==
               IF ~Truthy(user_id) THEN 400
               ELSE IF ~Truthy(role) THEN 400
               ELSE IF ~validate_role(role) THEN 400
               ELSE IF permitted.raised THEN 500
               ELSE IF ~permitted.allowed THEN 403
               ELSE IF result.raised THEN 500
               ELSE 200
       IN  /\ db' = IF status = 200 THEN result.db ELSE db
           /\ response' = MemberResponse("add_class_member", actor, class_id,
                                         user_id, role, status)
    /\ UNCHANGED <<log, user, prevUser, calls, lastOp, checkResult, decision,
                   roleTable, resolved, tokens>>

\* DELETE /api/classes/<class_id>/members/<user_id> with the bearer token of
\* actor
ApiRemoveClassMember(actor, class_id, user_id) ==
    /\ actor \in DOMAIN tokens
    /\ LET current_user == tokens[actor].claims
           permitted == user_has_class_permission(current_user, class_id,
                                                  "manage_members", db)
           result == remove_class_role(db, user_id, class_id)
           status ==
               IF permitted.raised THEN 500
               ELSE IF ~permitted.allowed THEN 403
               ELSE IF result.raised THEN 500
               ELSE 200
       IN  /\ db' = IF status = 200 THEN result.db ELSE db
           /\ response' = MemberResponse("remove_class_member", actor, class_id,
                                         user_id, None, status)
    /\ UNCHANGED <<log, user, prevUser, calls, lastOp, checkResult, decision,
                   roleTable, resolved, tokens>>

NextManage ==
    \/ \E class_id \in RouteClasses, user_id \in UserIds, role \in RequestedRoles :
          ApiAddClassMember("u1", class_id, user_id, role)
    \/ \E class_id \in RouteClasses, user_id \in UserIds, role \in RequestedRoles :
          ApiUpdateClassMember("u1", class_id, user_id, role)
    \/ \E class_id \in RouteClasses, user_id \in UserIds :
          ApiRemoveClassMember("u1", class_id, user_id)

SpecManage == InitManage /\ [][NextManage]_vars

\* the order of the class roles: none, student, ta, instructor
RoleRank(role) ==
    CASE role = Str("instructor") -> 3
      [] role = Str("ta") -> 2
      [] role = Str("student") -> 1
      [] OTHER -> 0

\* C27: a principal that is no admin and starts as ta or student of class K
\* never holds a higher class role in K than it started with, whatever
\* member-management requests it issues itself.
C27_NoSelfPromotion ==
    \A K \in RouteClasses :
        ResolvedRole(prevUser, K) \in {Str("ta"), Str("student")} =>
            RoleRank(ResolvedRole(db["u1"], K)) <= RoleRank(ResolvedRole(prevUser, K))

----------------------------------------------------------------------------
(* The fix step of the sync script against normalize: specification        *)
(* SpecMigrate                                                             *)

\* the class ids and roles of the class_memberships list of u, whatever
\* their order and number of occurrences
ClassesAndRoles(u) ==
    {<<m.class_id, m.role>> : m \in Range(ItemsOf(u.class_memberships))}

\* u and v hold the same class ids and roles in the three representations
SameClassesAndRoles(u, v) ==
    /\ ClassesAndRoles(u) = ClassesAndRoles(v)
    /\ Range(ItemsOf(u.classRoles)) = Range(ItemsOf(v.classRoles))
    /\ Range(ItemsOf(u.accessible_classes)) = Range(ItemsOf(v.accessible_classes))

\* C28: the record the fix step of the sync script stores for an
\* inconsistent principal holds the class ids and roles normalize produces
\* for the same record, in class_memberships, classRoles and
\* accessible_classes.
C28_FixAgreesWithNormalize ==
    (/\ lastOp = "run_sync" /\ ~response.dry_run /\ response.fix
     /\ ~response.raised /\ response.after.op = "load") =>
        \A id \in DOMAIN db :
            ~check_user_consistency(response.before[id]) =>
                SameClassesAndRoles(db[id],
                                    normalize_class_memberships(response.before[id]))

----------------------------------------------------------------------------
(* Consistency under the store-writing operations: specification SpecStore *)

\* C29: a store-writing operation (assign_class_role, update_class_role,
\* remove_class_role, auto-enrollment on answer submission, bulk grant, bulk
\* revoke) applied to a consistent principal record leaves it consistent:
\* the same class ids in class_memberships, classRoles and
\* accessible_classes, and the same role per class in class_memberships and
\* classRoles.
C29_WritesKeepConsistency ==
    (lastOp # "load" /\ check_format_consistency(prevUser).is_consistent)
        => check_format_consistency(user).is_consistent

----------------------------------------------------------------------------
(* Specification SpecRace: two requests writing the record of one          *)
(* principal, each reading the record and then upserting it whole          *)

Requests == {"r1", "r2"}

\* the operation of the second request: assign_class_role or the
\* auto-enrollment of api_submit_answer, for class b
SecondOps ==
    {[op |-> "assign_class_role", class_id |-> "b", role |-> "student"],
     [op |-> "auto_enroll", class_id |-> "b", role |-> "student"]}

\* the first request is assign_class_role for class a
RaceOps(second) ==
    [r \in Requests |->
        IF r = "r1" THEN [op |-> "assign_class_role", class_id |-> "a", role |-> "ta"]
        ELSE second]

\* the two requests in flight: where each stands, the record it read and
\* whether it raised
InFlight(ops) ==
    [op |-> "concurrent", ops |-> ops,
     pc |-> [r \in Requests |-> "start"],
     snapshot |-> [r \in Requests |-> NoUser],
     raised |-> [r \in Requests |-> FALSE]]

InitRace ==
    /\ log = NoLog
    /\ DrawUser({"u1"}, {<<>>}, {Absent}, {AbsentField})
    /\ db = [id \in {"u1"} |-> user]
    /\ prevUser = user
    /\ \E second \in SecondOps : response = InFlight(RaceOps(second))
    /\ calls = 0
    /\ lastOp = "load"
    /\ checkResult = NoCheck
    /\ decision = NoDecision
    /\ roleTable = <<>>
    /\ resolved = NoResolved
    /\ tokens = <<>>

\* db.get('users', user_id) of request r
ReadRecord(r) ==
    /\ response.pc[r] = "start"
    /\ response' = [response EXCEPT !.pc[r] = "read", !.snapshot[r] = db["u1"]]
    /\ UNCHANGED <<log, user, prevUser, calls, lastOp, checkResult, decision,
                   roleTable, resolved, db, tokens>>

\* the rest of the operation of request r, on the record it read, up to
\* db.upsert('users', user); auto-enrollment does not write when the record
\* read holds the course
WriteRecord(r) ==
    /\ response.pc[r] = "read"
    /\ LET call == response.ops[r]
           local == [id \in {"u1"} |-> response.snapshot[r]]
           result == IF call.op = "assign_class_role"
                     THEN assign_class_role(local, "u1", call.class_id, call.role, "u0")
                     ELSE auto_enroll(local, "u1", call.class_id)
           written == /\ ~result.raised
                      /\ call.op = "assign_class_role" \/ result.db # local
       IN  /\ db' = IF written THEN [db EXCEPT !["u1"] = result.db["u1"]] ELSE db
           /\ user' = db'["u1"]
           /\ response' = [response EXCEPT !.pc[r] = "done",
                                           !.raised[r] = result.raised]
    /\ UNCHANGED <<log, prevUser, calls, lastOp, checkResult, decision,
                   roleTable, resolved, tokens>>

NextRace == \E r \in Requests : ReadRecord(r) \/ WriteRecord(r)

SpecRace == InitRace /\ [][NextRace]_vars

\* C30: once both requests have completed without an error, the stored
\* record holds the membership of each, in every interleaving.
C30_BothMembershipsStored ==
    (\A r \in Requests : response.pc[r] = "done" /\ ~response.raised[r]) =>
        {"a", "b"} \subseteq MembershipClassIds(db["u1"])

====
